---- MODULE Spec2Model ----
(***************************************************************************)
(* LLM Council backend (Rovart/llm-council).                               *)
(*                                                                         *)
(* The specifications of this module:                                      *)
(*   Spec      the conversation store and the four request handlers        *)
(*             (send, send/stream, retry, retry/stream), the pending       *)
(*             remove and status endpoints and the background summary      *)
(*             task, interleaved at their await / yield points;            *)
(*   PipeSpec  one request's three stage pipeline with the stream          *)
(*             multiplexer query_models_parallel_stream: worker tasks, the *)
(*             asyncio queue and the consumer loop;                        *)
(*   PipeFairSpec  PipeSpec with the consumer loop scheduled fairly.       *)
(*   RankSpec  the stage-2 labelling, the ranking parser and the aggregate  *)
(*             ranking of one council run.                                 *)
(*   PromptSpec  the stage-2 labelling and prompt over councils with       *)
(*             differing response texts.                                   *)
(*   StoreSpec  storage.py's remove and mark functions called in a row on  *)
(*             one stored conversation.                                    *)
(*   MemberSpec  the models one council run queries in its three stages,   *)
(*             by provider, configuration and installed models.            *)
(***************************************************************************)
EXTENDS Integers, Sequences, FiniteSets, TLC

\* ------------------------------------------------------------------ bounds
NumReq == 2          \* request slots that may be in flight together
MaxCalls == 2        \* handler invocations in one behaviour
NumWorkers == 2      \* council members of the pipeline level model

\* ------------------------------------------------------- program constants
IMMEDIATE_CONTEXT_KEEP == 3
SUMMARY_RETENTION == 3

\* ------------------------------------------------------------------ texts
\* A text is a tuple; the empty string is the empty tuple (falsy in Python).
EmptyText == <<>>
AnswerText(id) == <<"ans", id>>
SummaryText(n) == <<"sum", n>>
ErrorText == <<"Error:">>
AllFailedText == <<"All models failed to respond. Please try again.">>

Requests == 1..NumReq
\* the configured council of the handler level model (one member)
HandlerCouncil == <<"m1">>
Contents == {"q"}
StatusInputs == {"pending", "complete", "failed", "bogus"}

\* ------------------------------------------------------------ store (pure)
NewUserMessage(c, id) ==
  [role |-> "user", content |-> c, status |-> "pending", upd |-> 0, id |-> id,
   stage1 |-> <<>>, stage2 |-> <<>>, model |-> "", resp |-> EmptyText, sc |-> 0]

NewAssistantMessage(s1, s2, s3, id) ==
  [role |-> "assistant", content |-> "", status |-> "", upd |-> 0, id |-> id,
   stage1 |-> s1, stage2 |-> s2, model |-> s3.model, resp |-> s3.response,
   sc |-> s3.summarized_count]

\* summary_msg built in the handlers and in the background task
SummaryMessage(n) ==
  NewAssistantMessage(<<>>, <<>>,
     [model |-> "chair", response |-> SummaryText(n), summarized_count |-> n], 0)

\* a faulty variant of add_user_message below: the message is appended to
\* a copy of the conversation read before the latest summary was stored
add_user_message_to_stale_copy(msgs, c, id) ==
  IF msgs # <<>> /\ msgs[Len(msgs)].sc > 0
  THEN Append(SubSeq(msgs, 1, Len(msgs) - 1), NewUserMessage(c, id))
  ELSE Append(msgs, NewUserMessage(c, id))

add_user_message(msgs, c, id) == Append(msgs, NewUserMessage(c, id))

UserIndices(msgs) == {i \in DOMAIN msgs : msgs[i].role = "user"}

LastUserIndex(msgs) ==
  IF UserIndices(msgs) = {} THEN 0
  ELSE CHOOSE i \in UserIndices(msgs) : \A j \in UserIndices(msgs) : j <= i

\* returns the message, or the string "None"
get_last_user_message(msgs) ==
  IF LastUserIndex(msgs) = 0 THEN "None" ELSE msgs[LastUserIndex(msgs)]

\* reversed(msgs): the first user message from the end gets the status
mark_last_user_message_status(msgs, status) ==
  IF LastUserIndex(msgs) = 0 THEN msgs
  ELSE [msgs EXCEPT ![LastUserIndex(msgs)].status = status,
                    ![LastUserIndex(msgs)].upd = @ + 1]

RemovableIndices(msgs) ==
  {i \in DOMAIN msgs : msgs[i].role = "user"
                        /\ msgs[i].status \in {"pending", "failed"}}

MaxOf(S) == CHOOSE i \in S : \A j \in S : j <= i

\* a faulty variant of RemovedIndices below: one message is popped per call
RemovedIndicesOnePerCall(msgs, keep_last) ==
  IF RemovableIndices(msgs) = {} THEN {}
  ELSE IF keep_last
    THEN IF Cardinality(RemovableIndices(msgs)) > 1
           THEN {CHOOSE i \in RemovableIndices(msgs) :
                    \A j \in RemovableIndices(msgs) : i <= j}
           ELSE {}
  ELSE RemovableIndices(msgs)

\* the indices popped by remove_pending_user_messages
RemovedIndices(msgs, keep_last) ==
  IF RemovableIndices(msgs) = {} THEN {}
  ELSE IF keep_last THEN RemovableIndices(msgs) \ {MaxOf(RemovableIndices(msgs))}
  ELSE RemovableIndices(msgs)

RECURSIVE DropIndices(_, _, _)
DropIndices(msgs, drop, i) ==
  IF i > Len(msgs) THEN <<>>
  ELSE (IF i \in drop THEN <<>> ELSE <<msgs[i]>>) \o DropIndices(msgs, drop, i + 1)

remove_pending_user_messages(msgs, keep_last) ==
  DropIndices(msgs, RemovedIndices(msgs, keep_last), 1)

\* a faulty variant of add_assistant_message below: the answer is put in
\* front of the last stored message
add_assistant_message_before_last(msgs, s1, s2, s3, id) ==
  IF msgs = <<>> THEN <<NewAssistantMessage(s1, s2, s3, id)>>
  ELSE SubSeq(msgs, 1, Len(msgs) - 1)
       \o <<NewAssistantMessage(s1, s2, s3, id), msgs[Len(msgs)]>>

add_assistant_message(msgs, s1, s2, s3, id) ==
  Append(msgs, NewAssistantMessage(s1, s2, s3, id))

\* prior_list of the handlers and finals of the background task: the
\* stage3 responses of all assistant messages whose response is truthy
RECURSIVE Finals(_)
Finals(msgs) ==
  IF msgs = <<>> THEN <<>>
  ELSE (IF Head(msgs).role = "assistant" /\ Head(msgs).resp # EmptyText
        THEN <<Head(msgs).resp>> ELSE <<>>) \o Finals(Tail(msgs))

LastK(s, k) == IF Len(s) <= k THEN s ELSE SubSeq(s, Len(s) - k + 1, Len(s))
AllButLastK(s, k) == IF Len(s) <= k THEN <<>> ELSE SubSeq(s, 1, Len(s) - k)

\* a conversation of n completed turns, as n synchronous sends leave it
RECURSIVE CompletedTurns(_)
CompletedTurns(n) ==
  IF n = 0 THEN <<>>
  ELSE CompletedTurns(n - 1)
       \o << [NewUserMessage("q", n) EXCEPT !.status = "complete", !.upd = 1],
             NewAssistantMessage(HandlerCouncil, HandlerCouncil,
                [model |-> "chair", response |-> AnswerText(n),
                 summarized_count |-> 0], n) >>


\* ================================================================ Spec ====
VARIABLES
  messages,   \* the stored conversation's message list
  title,      \* the stored conversation's title
  writes,     \* the save_conversation calls of the latest step: <<pre, post>>
  calls,      \* handler invocations so far
  req,        \* per request slot: the handler's locals and position
  events,     \* per request slot: SSE stage events emitted in this run
  bg          \* background summary tasks that were created and not finished

hvars == <<messages, title, writes, calls, req, events, bg>>

\* the variables of PipeSpec (one request's pipeline)
VARIABLES
  mode,            \* "stream" or "sync"
  nmodels,         \* number of council members queried in stage 1 and 2
  cpc,             \* position of the consumer (the handler / orchestrator)
  wpc,             \* wpc[s][w]: position of worker task w of stage s
  wlog,            \* wlog[s][w]: chunk types worker w of stage s has put
  queue,           \* queue[s]: the asyncio.Queue of the stage's multiplexer
  active_workers,  \* the multiplexer's counter
  got,             \* got[w]: chunk types of worker w the consumer was handed
  chair            \* the chairman's stream: chunk types produced so far

pvars == <<mode, nmodels, cpc, wpc, wlog, queue, active_workers, got, chair>>

\* the variables of RankSpec (the stage-2 labelling, the ranking parser and
\* the aggregate of one council run)
VARIABLES
  stage1_results,      \* the models of the stage-1 results, in list order
  stage1_responses,    \* the response texts of the stage-1 results
  ranking_prompt,      \* the prompt stage 2 built for the raters
  label_to_model,      \* the label map stage 2 built
  stage2_results,      \* the raters' results: ranking text, parsed_ranking
  aggregate_rankings,  \* the list calculate_aggregate_rankings returned
  rpc                  \* position of the run

fvars == <<stage1_results, stage1_responses, ranking_prompt, label_to_model,
           stage2_results, aggregate_rankings, rpc>>

\* the variables of StoreSpec (the store functions called in a row on one
\* conversation)
VARIABLES
  conversation,   \* the stored conversation's message list
  store_calls     \* the store calls made so far: function, argument, return value

svars == <<conversation, store_calls>>

\* the variables of MemberSpec (which models one council run queries)
VARIABLES
  provider,         \* the provider of the request: "local" or "remote"
  pipeline,         \* "sync" (run_full_council) or "stream" (the SSE handlers)
  council_models,   \* the configured council list
  chairman_model,   \* the configured chairman
  installed,        \* what ollama.list_models() returns
  stage1_members,   \* the models stage 1 queried
  stage1_models,    \* the models of stage1_results, in list order
  stage2_members,   \* the models stage 2 queried
  stage2_labels,    \* the label map stage 2 built
  stage3_chairman,  \* the model stage 3 queried
  ran,              \* the stages that were run, in order
  kind,             \* how the run ended
  mpc               \* position of the run

mvars == <<provider, pipeline, council_models, chairman_model, installed,
           stage1_members, stage1_models, stage2_members, stage2_labels,
           stage3_chairman, ran, kind, mpc>>
vars == <<hvars, pvars, fvars, svars, mvars>>


W(pre, post) == [pre |-> pre, post |-> post]

IdleReq ==
  [pc |-> "idle", kind |-> "none", call |-> 0, content |-> "", uid |-> 0,
   is_first |-> FALSE, skip |-> FALSE, did_sync_summary |-> FALSE,
   nsum |-> 0, remaining |-> <<>>, prior_context |-> <<>>,
   s1 |-> <<>>, s2 |-> <<>>, s3 |-> [model |-> "", response |-> EmptyText, summarized_count |-> 0]]

\* a slot is free when no handler is running in it; a new request takes
\* the lowest free slot (slots only name the requests in flight)
Ended == {"idle", "done", "raised", "rejected", "not_found", "failed",
          "cancelled"}
Free(r) ==
  /\ req[r].pc \in Ended
  /\ \A r2 \in Requests : r2 < r => req[r2].pc \notin Ended
  /\ calls < MaxCalls

\* conversations a behaviour may start with: a new one, one with
\* IMMEDIATE_CONTEXT_KEEP completed turns and one with one turn more
MaxInitialTurns == IMMEDIATE_CONTEXT_KEEP + 1
InitialTurns == {0, IMMEDIATE_CONTEXT_KEEP, MaxInitialTurns}

\* the id given to the user message of the call that starts now (the
\* messages of the initial conversation have the ids below it)
NewId == MaxInitialTurns + calls + 1

\* a handler that ended keeps only what identifies the request
End(q, pc) == [IdleReq EXCEPT !.pc = pc, !.kind = q.kind, !.uid = q.uid]

HInit ==
  /\ messages \in {CompletedTurns(n) : n \in InitialTurns}
  /\ title = IF messages = <<>> THEN "New Conversation" ELSE "generated"
  /\ writes = <<>>
  /\ calls = 0
  /\ req = [r \in Requests |-> IdleReq]
  /\ events = [r \in Requests |-> <<>>]
  /\ bg = {}

\* ------------------------------------------------ remove / status endpoints
\* POST /pending/remove
remove_pending_messages(keep_last) ==
  /\ calls < MaxCalls
  /\ calls' = calls + 1
  /\ messages' = remove_pending_user_messages(messages, keep_last)
  /\ writes' = IF RemovedIndices(messages, keep_last) # {}
               THEN <<W(messages, messages')>> ELSE <<>>
  /\ UNCHANGED <<title, req, events, bg, pvars, fvars, svars, mvars>>

\* POST /user-message/status with a non-empty status string
mark_user_message_status(status) ==
  /\ calls < MaxCalls
  /\ calls' = calls + 1
  /\ messages' = mark_last_user_message_status(messages, status)
  /\ writes' = IF LastUserIndex(messages) # 0
               THEN <<W(messages, messages')>> ELSE <<>>
  /\ UNCHANGED <<title, req, events, bg, pvars, fvars, svars, mvars>>


\* ------------------------------------------------------ context building
NoResult == [model |-> "", response |-> EmptyText, summarized_count |-> 0]

\* the prior_list / prior_context block up to the summarization request:
\* with more than IMMEDIATE_CONTEXT_KEEP finals the handler awaits the
\* chairman's summary (pc "summ"), otherwise it goes on to `next`
EnterContext(q, msgs, next) ==
  IF Len(Finals(msgs)) > IMMEDIATE_CONTEXT_KEEP
  THEN [q EXCEPT !.pc = "summ",
                 !.nsum = Len(AllButLastK(Finals(msgs), IMMEDIATE_CONTEXT_KEEP)),
                 !.remaining = LastK(Finals(msgs), IMMEDIATE_CONTEXT_KEEP)]
  ELSE [q EXCEPT !.pc = next,
                 !.prior_context = LastK(Finals(msgs), IMMEDIATE_CONTEXT_KEEP)]

\* `if convo and convo.get('messages')`: the summary is persisted
CanPersistSummary(msgs) == msgs # <<>>

\* the ordered sub-lists of the council (the members that answered)
Pick(seq, S) == DropIndices(seq, DOMAIN seq \ S, 1)
SubCouncils == {Pick(HandlerCouncil, S) : S \in SUBSET DOMAIN HandlerCouncil}

\* what run_full_council can do: raise, report that all models failed, or
\* return the three stages (the chairman's text may be empty or an error)
CouncilOutcomes(uid) ==
  {[raise |-> TRUE, s1 |-> <<>>, s2 |-> <<>>, s3 |-> NoResult]}
  \cup {[raise |-> FALSE, s1 |-> <<>>, s2 |-> <<>>,
         s3 |-> [model |-> "error", response |-> AllFailedText, summarized_count |-> 0]]}
  \cup {[raise |-> FALSE, s1 |-> a, s2 |-> b,
         s3 |-> [model |-> "chair", response |-> t, summarized_count |-> 0]] :
          a \in SubCouncils \ {<<>>}, b \in SubCouncils,
          t \in {AnswerText(uid), ErrorText, EmptyText}}

TitleOutcomes == {"generated", "New Conversation", "raise"}

\* the save_conversation calls of add_assistant_message followed by
\* mark_last_user_message_status(id, 'complete')
AnswerWrites(msgs, s1, s2, s3, uid) ==
  <<W(msgs, add_assistant_message(msgs, s1, s2, s3, uid))>>
  \o (IF LastUserIndex(msgs) # 0
      THEN <<W(add_assistant_message(msgs, s1, s2, s3, uid),
               mark_last_user_message_status(
                  add_assistant_message(msgs, s1, s2, s3, uid), "complete"))>>
      ELSE <<>>)

MarkWrites(msgs, status) ==
  IF LastUserIndex(msgs) # 0
  THEN <<W(msgs, mark_last_user_message_status(msgs, status))>> ELSE <<>>

\* ------------------------------------------------- POST /message (sync)
\* entry up to the first await: the title request of a first message, the
\* summary request, or run_full_council
send_message(r, c) ==
  /\ Free(r)
  /\ calls' = calls + 1
  /\ messages' = add_user_message(messages, c, NewId)
  /\ writes' = <<W(messages, messages')>>
  /\ req' = [req EXCEPT ![r] =
       IF Len(messages) = 0
       THEN [IdleReq EXCEPT !.pc = "title", !.kind = "send", !.content = c,
                            !.call = calls + 1, !.uid = NewId, !.is_first = TRUE]
       ELSE EnterContext([IdleReq EXCEPT !.kind = "send", !.content = c,
                                         !.call = calls + 1, !.uid = NewId],
                         messages', "council")]
  /\ events' = [events EXCEPT ![r] = <<>>]
  /\ UNCHANGED <<title, bg, pvars, fvars, svars, mvars>>

\* generate_conversation_title returns or raises; it is awaited outside
\* the handler's try block
send_message_title(r, t) ==
  /\ req[r].pc = "title" /\ req[r].kind = "send"
  /\ IF t = "raise"
     THEN /\ req' = [req EXCEPT ![r] = End(req[r], "raised")]
          /\ writes' = <<>>
          /\ UNCHANGED <<messages, title>>
     ELSE /\ title' = t
          /\ writes' = <<W(messages, messages)>>
          /\ req' = [req EXCEPT ![r] = EnterContext(req[r], messages, "council")]
          /\ UNCHANGED messages
  /\ UNCHANGED <<calls, events, bg, pvars, fvars, svars, mvars>>

\* the chairman's summary came back (ok) or failed; the `else` of the
\* persisting try block overwrites prior_context with the recent finals,
\* and a failed summary leaves prior_context = None
send_message_summary(r, ok) ==
  /\ req[r].pc = "summ" /\ req[r].kind = "send"
  /\ IF ok /\ CanPersistSummary(messages)
     THEN /\ messages' = Append(messages, SummaryMessage(req[r].nsum))
          /\ writes' = <<W(messages, messages')>>
          /\ req' = [req EXCEPT ![r].pc = "council",
                                ![r].did_sync_summary = TRUE,
                                ![r].prior_context = req[r].remaining]
     ELSE /\ UNCHANGED messages
          /\ writes' = <<>>
          /\ req' = [req EXCEPT ![r].pc = "council",
                                ![r].prior_context =
                                   IF ok THEN req[r].remaining ELSE <<>>]
  /\ UNCHANGED <<title, calls, events, bg, pvars, fvars, svars, mvars>>

\* run_full_council returned or raised: persist and mark complete, or mark
\* the last user message failed and re-raise
send_message_council(r, out) ==
  /\ req[r].pc = "council" /\ req[r].kind = "send"
  /\ IF out.raise
     THEN /\ messages' = mark_last_user_message_status(messages, "failed")
          /\ writes' = MarkWrites(messages, "failed")
          /\ req' = [req EXCEPT ![r] = End(req[r], "raised")]
     ELSE /\ messages' = mark_last_user_message_status(
                 add_assistant_message(messages, out.s1, out.s2, out.s3, req[r].uid),
                 "complete")
          /\ writes' = AnswerWrites(messages, out.s1, out.s2, out.s3, req[r].uid)
          /\ req' = [req EXCEPT ![r] = End(req[r], "done")]
  /\ UNCHANGED <<title, calls, events, bg, pvars, fvars, svars, mvars>>

\* ------------------------------------------- POST /pending/retry (sync)
CanRetry(msgs) ==
  /\ LastUserIndex(msgs) # 0
  /\ msgs[LastUserIndex(msgs)].status \in {"pending", "failed"}
  /\ msgs[LastUserIndex(msgs)].content # ""

\* the HTTPException of a retry that is not allowed: 404 ("not_found") when
\* there is no user message, else 400 ("rejected")
RetryRejection(msgs) ==
  IF LastUserIndex(msgs) = 0 THEN "not_found" ELSE "rejected"

retry_last_pending(r) ==
  /\ Free(r)
  /\ calls' = calls + 1
  /\ req' = [req EXCEPT ![r] =
       IF CanRetry(messages)
       THEN EnterContext([IdleReq EXCEPT !.kind = "retry", !.call = calls + 1,
                             !.content = get_last_user_message(messages).content,
                             !.uid = get_last_user_message(messages).id],
                         messages, "council")
       ELSE [IdleReq EXCEPT !.pc = RetryRejection(messages),
                            !.kind = "retry"]]
  /\ events' = [events EXCEPT ![r] = <<>>]
  /\ writes' = <<>>
  /\ UNCHANGED <<messages, title, bg, pvars, fvars, svars, mvars>>

retry_last_pending_summary(r, ok) ==
  /\ req[r].pc = "summ" /\ req[r].kind = "retry"
  /\ IF ok /\ CanPersistSummary(messages)
     THEN /\ messages' = Append(messages, SummaryMessage(req[r].nsum))
          /\ writes' = <<W(messages, messages')>>
          /\ req' = [req EXCEPT ![r].pc = "council",
                                ![r].did_sync_summary = TRUE,
                                ![r].prior_context =
                                   <<SummaryText(req[r].nsum)>> \o req[r].remaining]
     ELSE /\ UNCHANGED messages
          /\ writes' = <<>>
          /\ req' = [req EXCEPT ![r].pc = "council",
                                ![r].prior_context = req[r].remaining]
  /\ UNCHANGED <<title, calls, events, bg, pvars, fvars, svars, mvars>>

retry_last_pending_council(r, out) ==
  /\ req[r].pc = "council" /\ req[r].kind = "retry"
  /\ IF out.raise
     THEN /\ messages' = mark_last_user_message_status(messages, "failed")
          /\ writes' = MarkWrites(messages, "failed")
          /\ req' = [req EXCEPT ![r] = End(req[r], "raised")]
     ELSE /\ messages' = mark_last_user_message_status(
                 add_assistant_message(messages, out.s1, out.s2, out.s3, req[r].uid),
                 "complete")
          /\ writes' = AnswerWrites(messages, out.s1, out.s2, out.s3, req[r].uid)
          /\ req' = [req EXCEPT ![r] = End(req[r], "done")]
  /\ UNCHANGED <<title, calls, events, bg, pvars, fvars, svars, mvars>>


\* ------------------------------------------------------ streaming handlers
FirstStage(skip) == IF skip THEN "s3" ELSE "s1"
\* a faulty variant of FirstEvent below: stage 1 is entered without its
\* start event
FirstEventOfStage3Only(q) ==
  IF q.pc = "s3" THEN <<"stage3_start">> ELSE <<>>

FirstEvent(q) ==
  IF q.pc = "s3" THEN <<"stage3_start">>
  ELSE IF q.pc = "s1" THEN <<"stage1_start">> ELSE <<>>

Stage3Outcomes(uid) == {AnswerText(uid), EmptyText, ErrorText}

\* a faulty variant of Stage3Events below: an error chunk of the chairman
\* is passed over without an event
Stage3EventsDoneOnly(t) ==
  IF t = ErrorText THEN <<>> ELSE <<"stage3_complete">>

\* the chairman's stream as the handler forwards it (the per-model and
\* chunk events of the stages are left to PipeSpec)
Stage3Events(t) == <<"stage3_complete">>

\* a faulty variant of Scheduled below: the number of stored finals is not
\* compared with SUMMARY_RETENTION
ScheduledAtAnyCount(q, msgs) ==
  IF ~q.did_sync_summary /\ msgs # <<>> /\ Len(Finals(msgs)) > 0
  THEN {[id |-> q.call, n |-> 1, pc |-> "new"]}
  ELSE {}

\* a faulty variant of Scheduled below: did_sync_summary is not looked at
ScheduledAfterSyncSummary(q, msgs) ==
  IF msgs # <<>> /\ Len(Finals(msgs)) > SUMMARY_RETENTION
  THEN {[id |-> q.call, n |-> Len(Finals(msgs)) - SUMMARY_RETENTION, pc |-> "new"]}
  ELSE {}

\* background summarization is scheduled when no summary was written in
\* the foreground and more than SUMMARY_RETENTION finals are stored
Scheduled(q, msgs) ==
  IF ~q.did_sync_summary /\ msgs # <<>> /\ Len(Finals(msgs)) > SUMMARY_RETENTION
  THEN {[id |-> q.call, n |-> Len(Finals(msgs)) - SUMMARY_RETENTION, pc |-> "new"]}
  ELSE {}

\* POST /message/stream: the handler checks the conversation, notes whether
\* this is the first message and returns the streaming response
send_message_stream(r, c, skip) ==
  /\ Free(r)
  /\ calls' = calls + 1
  /\ req' = [req EXCEPT ![r] =
       [IdleReq EXCEPT !.pc = "gen", !.kind = "send_stream", !.content = c,
                       !.call = calls + 1, !.uid = NewId, !.skip = skip,
                       !.is_first = (Len(messages) = 0)]]
  /\ events' = [events EXCEPT ![r] = <<>>]
  /\ writes' = <<>>
  /\ UNCHANGED <<messages, title, bg, pvars, fvars, svars, mvars>>

\* a faulty variant of the except block below: the error event is sent
\* but the last user message keeps its status
send_message_stream_except_unmarked(r) ==
  /\ UNCHANGED messages
  /\ writes' = <<>>
  /\ events' = [events EXCEPT ![r] = Append(@, "error")]
  /\ req' = [req EXCEPT ![r] = End(req[r], "failed")]

\* `except Exception` of send_message_stream's event_generator
send_message_stream_except(r) ==
  /\ messages' = mark_last_user_message_status(messages, "failed")
  /\ writes' = MarkWrites(messages, "failed")
  /\ events' = [events EXCEPT ![r] = Append(@, "error")]
  /\ req' = [req EXCEPT ![r] = End(req[r], "failed")]

\* event_generator starts: the user message is appended, the title task is
\* created for a first message, the context is built
send_message_stream_begin(r) ==
  /\ req[r].pc = "gen" /\ req[r].kind = "send_stream"
  /\ messages' = add_user_message(messages, req[r].content, req[r].uid)
  /\ writes' = <<W(messages, messages')>>
  /\ req' = [req EXCEPT ![r] = EnterContext(req[r], messages', FirstStage(req[r].skip))]
  /\ events' = [events EXCEPT ![r] = FirstEvent(req'[r])]
  /\ UNCHANGED <<title, calls, bg, pvars, fvars, svars, mvars>>

send_message_stream_summary(r, ok) ==
  /\ req[r].pc = "summ" /\ req[r].kind = "send_stream"
  /\ IF ok /\ CanPersistSummary(messages)
     THEN /\ messages' = Append(messages, SummaryMessage(req[r].nsum))
          /\ writes' = <<W(messages, messages')>>
          /\ req' = [req EXCEPT ![r].pc = FirstStage(req[r].skip),
                                ![r].did_sync_summary = TRUE,
                                ![r].prior_context =
                                   <<SummaryText(req[r].nsum)>> \o req[r].remaining]
     ELSE /\ UNCHANGED messages
          /\ writes' = <<>>
          /\ req' = [req EXCEPT ![r].pc = FirstStage(req[r].skip),
                                ![r].prior_context = req[r].remaining]
  /\ events' = [events EXCEPT ![r] = FirstEvent(req'[r])]
  /\ UNCHANGED <<title, calls, bg, pvars, fvars, svars, mvars>>

\* stage 1 ran to the end of its merged stream (ok = the members that
\* produced text) or raised
send_message_stream_stage1(r, raise, ok) ==
  /\ req[r].pc = "s1" /\ req[r].kind = "send_stream"
  /\ IF raise
     THEN send_message_stream_except(r)
     ELSE /\ req' = [req EXCEPT ![r].pc = "s2", ![r].s1 = ok]
          /\ events' = [events EXCEPT ![r] =
                @ \o <<"stage1_complete", "stage2_start">>]
          /\ writes' = <<>>
          /\ UNCHANGED messages
  /\ UNCHANGED <<title, calls, bg, pvars, fvars, svars, mvars>>

send_message_stream_stage2(r, raise, ok) ==
  /\ req[r].pc = "s2" /\ req[r].kind = "send_stream"
  /\ IF raise
     THEN send_message_stream_except(r)
     ELSE /\ req' = [req EXCEPT ![r].pc = "s3", ![r].s2 = ok]
          /\ events' = [events EXCEPT ![r] =
                @ \o <<"stage2_metadata", "stage2_complete", "stage3_start">>]
          /\ writes' = <<>>
          /\ UNCHANGED messages
  /\ UNCHANGED <<title, calls, bg, pvars, fvars, svars, mvars>>

\* the chairman's stream ended with done (t = the accumulated text) or with
\* an error chunk (t = ErrorText), or the step raised
send_message_stream_stage3(r, raise, t) ==
  /\ req[r].pc = "s3" /\ req[r].kind = "send_stream"
  /\ IF raise
     THEN send_message_stream_except(r)
     ELSE /\ req' = [req EXCEPT ![r].pc = "post3",
                ![r].s3 = [model |-> "chair", response |-> t, summarized_count |-> 0]]
          /\ events' = [events EXCEPT ![r] = @ \o Stage3Events(t)]
          /\ writes' = <<>>
          /\ UNCHANGED messages
  /\ UNCHANGED <<title, calls, bg, pvars, fvars, svars, mvars>>

\* `title = await title_task`, update_conversation_title, title_complete
send_message_stream_title(r, t) ==
  /\ req[r].pc = "post3" /\ req[r].kind = "send_stream" /\ req[r].is_first
  /\ IF t = "raise"
     THEN send_message_stream_except(r) /\ UNCHANGED title
     ELSE /\ title' = t
          /\ writes' = <<W(messages, messages)>>
          /\ req' = [req EXCEPT ![r].pc = "posttitle"]
          /\ events' = [events EXCEPT ![r] = Append(@, "title_complete")]
          /\ UNCHANGED messages
  /\ UNCHANGED <<calls, bg, pvars, fvars, svars, mvars>>

\* add_assistant_message, the background scheduling and the complete event
send_message_stream_save(r) ==
  /\ req[r].kind = "send_stream"
  /\ \/ req[r].pc = "posttitle"
     \/ req[r].pc = "post3" /\ ~req[r].is_first
  /\ messages' = add_assistant_message(messages, req[r].s1, req[r].s2,
                                       req[r].s3, req[r].uid)
  /\ writes' = <<W(messages, messages')>>
  /\ bg' = bg \cup Scheduled(req[r], messages')
  /\ events' = [events EXCEPT ![r] = Append(@, "complete")]
  /\ req' = [req EXCEPT ![r] = End(req[r], "done")]
  /\ UNCHANGED <<title, calls, pvars, fvars, svars, mvars>>


\* ------------------------------------------ POST /pending/retry/stream
retry_last_pending_stream(r, skip) ==
  /\ Free(r)
  /\ calls' = calls + 1
  /\ req' = [req EXCEPT ![r] =
       IF CanRetry(messages)
       THEN [IdleReq EXCEPT !.pc = "gen", !.kind = "retry_stream",
                !.call = calls + 1, !.skip = skip,
                !.content = get_last_user_message(messages).content,
                !.uid = get_last_user_message(messages).id,
                !.is_first = (Len(messages) = 0)]
       ELSE [IdleReq EXCEPT !.pc = RetryRejection(messages),
                            !.kind = "retry_stream"]]
  /\ events' = [events EXCEPT ![r] = <<>>]
  /\ writes' = <<>>
  /\ UNCHANGED <<messages, title, bg, pvars, fvars, svars, mvars>>

\* `except Exception` of retry_last_pending_stream's event_generator
retry_last_pending_stream_except(r) ==
  /\ messages' = mark_last_user_message_status(messages, "failed")
  /\ writes' = MarkWrites(messages, "failed")
  /\ events' = [events EXCEPT ![r] = Append(@, "error")]
  /\ req' = [req EXCEPT ![r] = End(req[r], "failed")]

retry_last_pending_stream_begin(r) ==
  /\ req[r].pc = "gen" /\ req[r].kind = "retry_stream"
  /\ req' = [req EXCEPT ![r] = EnterContext(req[r], messages, FirstStage(req[r].skip))]
  /\ events' = [events EXCEPT ![r] = FirstEvent(req'[r])]
  /\ writes' = <<>>
  /\ UNCHANGED <<messages, title, calls, bg, pvars, fvars, svars, mvars>>

retry_last_pending_stream_summary(r, ok) ==
  /\ req[r].pc = "summ" /\ req[r].kind = "retry_stream"
  /\ IF ok /\ CanPersistSummary(messages)
     THEN /\ messages' = Append(messages, SummaryMessage(req[r].nsum))
          /\ writes' = <<W(messages, messages')>>
          /\ req' = [req EXCEPT ![r].pc = FirstStage(req[r].skip),
                                ![r].did_sync_summary = TRUE,
                                ![r].prior_context =
                                   <<SummaryText(req[r].nsum)>> \o req[r].remaining]
     ELSE /\ UNCHANGED messages
          /\ writes' = <<>>
          /\ req' = [req EXCEPT ![r].pc = FirstStage(req[r].skip),
                                ![r].prior_context = req[r].remaining]
  /\ events' = [events EXCEPT ![r] = FirstEvent(req'[r])]
  /\ UNCHANGED <<title, calls, bg, pvars, fvars, svars, mvars>>

retry_last_pending_stream_stage1(r, raise, ok) ==
  /\ req[r].pc = "s1" /\ req[r].kind = "retry_stream"
  /\ IF raise
     THEN retry_last_pending_stream_except(r)
     ELSE /\ req' = [req EXCEPT ![r].pc = "s2", ![r].s1 = ok]
          /\ events' = [events EXCEPT ![r] =
                @ \o <<"stage1_complete", "stage2_start">>]
          /\ writes' = <<>>
          /\ UNCHANGED messages
  /\ UNCHANGED <<title, calls, bg, pvars, fvars, svars, mvars>>

retry_last_pending_stream_stage2(r, raise, ok) ==
  /\ req[r].pc = "s2" /\ req[r].kind = "retry_stream"
  /\ IF raise
     THEN retry_last_pending_stream_except(r)
     ELSE /\ req' = [req EXCEPT ![r].pc = "s3", ![r].s2 = ok]
          /\ events' = [events EXCEPT ![r] =
                @ \o <<"stage2_metadata", "stage2_complete", "stage3_start">>]
          /\ writes' = <<>>
          /\ UNCHANGED messages
  /\ UNCHANGED <<title, calls, bg, pvars, fvars, svars, mvars>>

retry_last_pending_stream_stage3(r, raise, t) ==
  /\ req[r].pc = "s3" /\ req[r].kind = "retry_stream"
  /\ IF raise
     THEN retry_last_pending_stream_except(r)
     ELSE /\ req' = [req EXCEPT ![r].pc = "post3",
                ![r].s3 = [model |-> "chair", response |-> t, summarized_count |-> 0]]
          /\ events' = [events EXCEPT ![r] = @ \o Stage3Events(t)]
          /\ writes' = <<>>
          /\ UNCHANGED messages
  /\ UNCHANGED <<title, calls, bg, pvars, fvars, svars, mvars>>

\* the title task exists only when the conversation read by the handler
\* had no message, which a retry never sees; then add_assistant_message,
\* the complete mark, the background scheduling and the complete event.
\* On the skip_stages path stage1_results is unbound: the NameError of
\* add_assistant_message's arguments lands in the except block.
retry_last_pending_stream_save(r) ==
  /\ req[r].kind = "retry_stream"
  /\ req[r].pc = "post3" /\ ~req[r].is_first
  /\ IF req[r].skip
     THEN retry_last_pending_stream_except(r) /\ UNCHANGED bg
     ELSE /\ messages' = mark_last_user_message_status(
                add_assistant_message(messages, req[r].s1, req[r].s2,
                                      req[r].s3, req[r].uid), "complete")
          /\ writes' = AnswerWrites(messages, req[r].s1, req[r].s2,
                                    req[r].s3, req[r].uid)
          /\ bg' = bg \cup Scheduled(req[r], messages')
          /\ events' = [events EXCEPT ![r] = Append(@, "complete")]
          /\ req' = [req EXCEPT ![r] = End(req[r], "done")]
  /\ UNCHANGED <<title, calls, pvars, fvars, svars, mvars>>

\* the client goes away while the generator is suspended: the generator is
\* closed by a BaseException that `except Exception` does not catch
Suspended == {"gen", "summ", "s1", "s2", "s3", "post3", "posttitle"}

client_disconnect(r) ==
  /\ req[r].kind \in {"send_stream", "retry_stream"}
  /\ req[r].pc \in Suspended
  /\ req' = [req EXCEPT ![r] = End(req[r], "cancelled")]
  /\ writes' = <<>>
  /\ UNCHANGED <<messages, title, calls, events, bg, pvars, fvars, svars, mvars>>

\* ------------------------------------- _background_summarize_and_persist
\* up to the chairman request: the task returns at once when the stored
\* finals are fewer than num_to_summarize
background_summarize_start(b) ==
  /\ b \in bg /\ b.pc = "new"
  /\ bg' = IF messages = <<>> \/ Finals(messages) = <<>> \/ b.n <= 0
              \/ b.n > Len(Finals(messages))
           THEN bg \ {b}
           ELSE (bg \ {b}) \cup {[b EXCEPT !.pc = "query"]}
  /\ writes' = <<>>
  /\ UNCHANGED <<messages, title, calls, req, events, pvars, fvars, svars, mvars>>

\* the chairman answered (ok) or not; the conversation is read again and
\* the summary appended and saved without an await in between
background_summarize_persist(b, ok) ==
  /\ b \in bg /\ b.pc = "query"
  /\ bg' = bg \ {b}
  /\ IF ok /\ messages # <<>>
     THEN /\ messages' = Append(messages, SummaryMessage(b.n))
          /\ writes' = <<W(messages, messages')>>
     ELSE /\ UNCHANGED messages
          /\ writes' = <<>>
  /\ UNCHANGED <<title, calls, req, events, pvars, fvars, svars, mvars>>


\* ============================================================ PipeSpec ====
\* One request's pipeline.  mode "stream": the streaming handlers drive
\* query_models_parallel_stream for stage 1 and stage 2 and the chairman's
\* stream for stage 3.  mode "sync": run_full_council awaits
\* query_models_parallel (asyncio.gather) for stage 1 and 2 and the chairman.
Stages == {1, 2}
Workers == 1..NumWorkers

PIdle ==
  /\ mode = "stream"
  /\ nmodels = 0
  /\ cpc = "off"
  /\ wpc = [s \in Stages |-> [w \in Workers |-> "none"]]
  /\ wlog = [s \in Stages |-> [w \in Workers |-> <<>>]]
  /\ queue = [s \in Stages |-> <<>>]
  /\ active_workers = 0
  /\ got = [w \in Workers |-> <<>>]
  /\ chair = <<>>

PInit ==
  /\ mode \in {"stream", "sync"}
  /\ nmodels \in 0..NumWorkers
  /\ cpc = "begin"
  /\ wpc = [s \in Stages |-> [w \in Workers |-> "none"]]
  /\ wlog = [s \in Stages |-> [w \in Workers |-> <<>>]]
  /\ queue = [s \in Stages |-> <<>>]
  /\ active_workers = 0
  /\ got = [w \in Workers |-> <<>>]
  /\ chair = <<>>

\* the frozen handler level state of PipeSpec
HIdle ==
  /\ messages = <<>>
  /\ title = "New Conversation"
  /\ writes = <<>>
  /\ calls = 0
  /\ req = [r \in Requests |-> IdleReq]
  /\ events = [r \in Requests |-> <<>>]
  /\ bg = {}

Item(w, type) == [w |-> w, type |-> type]

StageOf(pc) == IF pc = "s1" THEN 1 ELSE IF pc = "s2" THEN 2 ELSE 0

\* `tasks = [asyncio.create_task(worker(m)) for m in models]` with a new
\* queue and active_workers = len(models)
CreateTasks(s) ==
  /\ wpc' = [wpc EXCEPT ![s] = [w \in Workers |->
                IF w <= nmodels THEN "created" ELSE "none"]]
  /\ queue' = [queue EXCEPT ![s] = <<>>]
  /\ active_workers' = nmodels
  /\ got' = [w \in Workers |-> <<>>]

\* the consumer starts iterating the stage-1 stream
stage1_start ==
  /\ mode = "stream" /\ cpc = "begin"
  /\ cpc' = "s1"
  /\ CreateTasks(1)
  /\ UNCHANGED <<mode, nmodels, wlog, chair, hvars, fvars, svars, mvars>>

\* a faulty variant of worker_begin below: the start chunk is not announced
worker_begin_nostart(s, w, raised) ==
  /\ mode = "stream" /\ wpc[s][w] = "created"
  /\ wpc' = [wpc EXCEPT ![s][w] = IF raised THEN "finished" ELSE "streaming"]
  /\ wlog' = [wlog EXCEPT ![s][w] = IF raised THEN <<"error">> ELSE <<>>]
  /\ queue' = [queue EXCEPT ![s] = @ \o
       (IF raised THEN <<Item(w, "error"), Item(w, "complete")>> ELSE <<>>)]
  /\ UNCHANGED <<mode, nmodels, cpc, active_workers, got, chair, hvars, fvars, svars, mvars>>

\* worker() up to its first suspension.  query_model(stream=True) hands
\* back the generator and the start chunk is put (queue.put never waits on
\* this queue), then the generator waits for the upstream response; or
\* query_model raised: the error chunk and, in `finally`, the complete
\* marker are put and the task is over.
worker_begin(s, w, raised) ==
  /\ mode = "stream" /\ wpc[s][w] = "created"
  /\ wpc' = [wpc EXCEPT ![s][w] = IF raised THEN "finished" ELSE "streaming"]
  /\ wlog' = [wlog EXCEPT ![s][w] = IF raised THEN <<"error">> ELSE <<"start">>]
  /\ queue' = [queue EXCEPT ![s] = @ \o
       (IF raised THEN <<Item(w, "error"), Item(w, "complete")>>
        ELSE <<Item(w, "start")>>)]
  /\ UNCHANGED <<mode, nmodels, cpc, active_workers, got, chair, hvars, fvars, svars, mvars>>

\* _query_model_stream_generator: one chunk with the whole content and then
\* done, or one error chunk
UpstreamChunks(ok) == IF ok THEN <<"chunk", "done">> ELSE <<"error">>

RECURSIVE Items(_, _)
Items(w, types) ==
  IF types = <<>> THEN <<>> ELSE <<Item(w, Head(types))>> \o Items(w, Tail(types))

\* the upstream response arrived: `async for chunk in generator` puts the
\* generator's chunks and `finally` puts the complete marker; there is no
\* await between these puts
worker_stream(s, w, ok) ==
  /\ mode = "stream" /\ wpc[s][w] = "streaming"
  /\ wlog' = [wlog EXCEPT ![s][w] = @ \o UpstreamChunks(ok)]
  /\ queue' = [queue EXCEPT ![s] =
                 @ \o Items(w, UpstreamChunks(ok)) \o <<Item(w, "complete")>>]
  /\ wpc' = [wpc EXCEPT ![s][w] = "finished"]
  /\ UNCHANGED <<mode, nmodels, cpc, active_workers, got, chair, hvars, fvars, svars, mvars>>

\* a faulty variant of mux_get below: the newest item is taken first (a
\* LIFO queue)
mux_get_lifo(s) ==
  /\ mode = "stream" /\ StageOf(cpc) = s
  /\ active_workers > 0
  /\ queue[s] # <<>>
  /\ queue' = [queue EXCEPT ![s] = SubSeq(@, 1, Len(@) - 1)]
  /\ IF queue[s][Len(queue[s])].type = "complete"
     THEN /\ active_workers' = active_workers - 1
          /\ UNCHANGED got
     ELSE /\ got' = [got EXCEPT ![queue[s][Len(queue[s])].w] =
                       Append(@, queue[s][Len(queue[s])].type)]
          /\ UNCHANGED active_workers
  /\ UNCHANGED <<mode, nmodels, cpc, wpc, wlog, chair, hvars, fvars, svars, mvars>>

\* a faulty variant of mux_get below: the complete marker is handed on like
\* any other chunk and never counted
mux_get_uncounted(s) ==
  /\ mode = "stream" /\ StageOf(cpc) = s
  /\ active_workers > 0
  /\ queue[s] # <<>>
  /\ queue' = [queue EXCEPT ![s] = Tail(@)]
  /\ got' = [got EXCEPT ![Head(queue[s]).w] = Append(@, Head(queue[s]).type)]
  /\ UNCHANGED <<mode, nmodels, cpc, wpc, wlog, active_workers, chair, hvars, fvars, svars, mvars>>

\* one turn of `while active_workers > 0`: queue.get(), count a complete
\* marker, yield anything else
mux_get(s) ==
  /\ mode = "stream" /\ StageOf(cpc) = s
  /\ active_workers > 0
  /\ queue[s] # <<>>
  /\ queue' = [queue EXCEPT ![s] = Tail(@)]
  /\ IF Head(queue[s]).type = "complete"
     THEN /\ active_workers' = active_workers - 1
          /\ UNCHANGED got
     ELSE /\ got' = [got EXCEPT ![Head(queue[s]).w] = Append(@, Head(queue[s]).type)]
          /\ UNCHANGED active_workers
  /\ UNCHANGED <<mode, nmodels, cpc, wpc, wlog, chair, hvars, fvars, svars, mvars>>

\* a faulty variant of MuxEnded below: the loop is left as soon as the
\* queue is empty
MuxEndedOnEmptyQueue(s) == queue[s] = <<>>

\* the loop is left and `await asyncio.gather(*tasks)` returns
MuxEnded(s) ==
  /\ active_workers = 0
  /\ \A w \in Workers : wpc[s][w] \in {"none", "finished"}

\* stage 1's stream ended: the handler goes on to stage 2
stage2_start ==
  /\ mode = "stream" /\ cpc = "s1"
  /\ MuxEnded(1)
  /\ cpc' = "s2"
  /\ CreateTasks(2)
  /\ UNCHANGED <<mode, nmodels, wlog, chair, hvars, fvars, svars, mvars>>

\* stage 2's stream ended: the handler starts the chairman's stream
stage3_start ==
  /\ mode = "stream" /\ cpc = "s2"
  /\ MuxEnded(2)
  /\ cpc' = "s3"
  /\ chair' = <<"start">>
  /\ UNCHANGED <<mode, nmodels, wpc, wlog, queue, active_workers, got, hvars, fvars, svars, mvars>>

\* what the chairman's generator can yield after the chunks in log
NextChunks(log) ==
  IF log = <<"start">> THEN {"chunk", "error"}
  ELSE IF log = <<"start", "chunk">> THEN {"done"}
  ELSE {}

\* _stage3_synthesize_final_stream forwards the chairman's chunks, which
\* the handler turns into events one by one
chairman_chunk(type) ==
  /\ mode = "stream" /\ cpc = "s3"
  /\ type \in NextChunks(chair)
  /\ chair' = Append(chair, type)
  /\ cpc' = IF type \in {"done", "error"} THEN "done" ELSE "s3"
  /\ UNCHANGED <<mode, nmodels, wpc, wlog, queue, active_workers, got, hvars, fvars, svars, mvars>>

\* the SSE client disconnects: the handler's generator is closed where it
\* is suspended; nothing in query_models_parallel_stream cancels the tasks
consumer_abandon ==
  /\ mode = "stream" /\ cpc \in {"s1", "s2", "s3"}
  /\ cpc' = "gone"
  /\ UNCHANGED <<mode, nmodels, wpc, wlog, queue, active_workers, got, chair, hvars, fvars, svars, mvars>>


\* ------------------------------------------------ run_full_council (sync)
\* query_models_parallel: asyncio.gather over one query_model per member
sync_stage1_start ==
  /\ mode = "sync" /\ cpc = "begin"
  /\ cpc' = "s1"
  /\ CreateTasks(1)
  /\ UNCHANGED <<mode, nmodels, wlog, chair, hvars, fvars, svars, mvars>>

\* the coroutine runs up to its HTTP request
sync_worker_run(s, w) ==
  /\ mode = "sync" /\ wpc[s][w] = "created"
  /\ wpc' = [wpc EXCEPT ![s][w] = "streaming"]
  /\ UNCHANGED <<mode, nmodels, cpc, wlog, queue, active_workers, got, chair, hvars, fvars, svars, mvars>>

\* query_model returns a response ("ok"), None ("none") or raises
sync_worker_return(s, w, res) ==
  /\ mode = "sync" /\ wpc[s][w] = "streaming"
  /\ wpc' = [wpc EXCEPT ![s][w] = "finished"]
  /\ wlog' = [wlog EXCEPT ![s][w] = <<res>>]
  /\ UNCHANGED <<mode, nmodels, cpc, queue, active_workers, got, chair, hvars, fvars, svars, mvars>>

GatherDone(s) == \A w \in Workers : wpc[s][w] \in {"none", "finished"}
GatherRaised(s) == \E w \in Workers : wlog[s][w] = <<"raise">>

\* gather re-raises a member's exception into run_full_council
sync_gather_raise ==
  /\ mode = "sync" /\ StageOf(cpc) # 0
  /\ GatherRaised(StageOf(cpc))
  /\ cpc' = "raised"
  /\ UNCHANGED <<mode, nmodels, wpc, wlog, queue, active_workers, got, chair, hvars, fvars, svars, mvars>>

\* stage 1 returned: without any response the orchestrator returns the
\* all-models-failed answer, otherwise stage 2 is awaited
sync_stage2_start ==
  /\ mode = "sync" /\ cpc = "s1"
  /\ GatherDone(1) /\ ~GatherRaised(1)
  /\ IF \E w \in Workers : wlog[1][w] = <<"ok">>
     THEN cpc' = "s2" /\ CreateTasks(2)
     ELSE cpc' = "done" /\ UNCHANGED <<wpc, queue, active_workers, got>>
  /\ UNCHANGED <<mode, nmodels, wlog, chair, hvars, fvars, svars, mvars>>

sync_stage3_start ==
  /\ mode = "sync" /\ cpc = "s2"
  /\ GatherDone(2) /\ ~GatherRaised(2)
  /\ cpc' = "s3"
  /\ chair' = <<"start">>
  /\ UNCHANGED <<mode, nmodels, wpc, wlog, queue, active_workers, got, hvars, fvars, svars, mvars>>

\* stage3_synthesize_final: the chairman's query_model returns or raises
sync_chairman_return(res) ==
  /\ mode = "sync" /\ cpc = "s3"
  /\ chair' = Append(chair, res)
  /\ cpc' = IF res = "raise" THEN "raised" ELSE "done"
  /\ UNCHANGED <<mode, nmodels, wpc, wlog, queue, active_workers, got, hvars, fvars, svars, mvars>>

SyncResults == {"ok", "none", "raise"}

\* ------------------------------------------------------ stage-1 results
\* a faulty variant of stream_stage1_results below: a model is kept as soon
\* as anything but its start came in, an error chunk included
stream_stage1_results_any ==
  {w \in Workers : \E i \in DOMAIN got[w] : got[w][i] # "start"}

\* the streaming handler's model_responses: a key for every model a chunk
\* came from (error and done chunks are passed over); stage1_results has
\* one entry per key
stream_stage1_results ==
  {w \in Workers : \E i \in DOMAIN got[w] : got[w][i] = "chunk"}

\* stage1_collect_responses without stream: the models whose response is
\* not None
sync_stage1_results == {w \in Workers : wlog[1][w] = <<"ok">>}

\* ============================================================ RankSpec ====
\* One council run seen from stage 2 on: stage2_collect_rankings labels the
\* stage-1 results, each rater's text is parsed by parse_ranking_from_text
\* and calculate_aggregate_rankings builds the leaderboard.
MaxCouncil == 27
SmallCouncil == 2
MaxTokens == 3
MaxRaters == 2
PromptCouncil == 3

\* ASCII, from code 65 on
AsciiFrom65 ==
  << "A", "B", "C", "D", "E", "F", "G", "H", "I", "J", "K", "L", "M",
     "N", "O", "P", "Q", "R", "S", "T", "U", "V", "W", "X", "Y", "Z",
     "[", "\\", "]", "^", "_" >>
chr(k) == AsciiFrom65[k - 64]

\* the letters the pattern [A-Z] matches
UpperCase == {AsciiFrom65[i] : i \in 1..26}

\* the label alphabet A..Z
Alphabet == [i \in 1..26 |-> AsciiFrom65[i]]

\* Model identifiers are numbered in their lexicographic order.  The
\* stage-1 results are the council members that answered, in any order:
\* the small councils, and the councils from the length of the alphabet on.
Council(n) == [i \in 1..n |-> i]
CouncilSizes == 0..SmallCouncil \cup Len(Alphabet)..MaxCouncil
Stage1Inputs == {Council(n) : n \in CouncilSizes} \cup {<<2, 1>>}

\* `labels = [chr(65 + i) for i in range(len(stage1_results))]`
labels(results) == [i \in 1..Len(results) |-> chr(65 + (i - 1))]

\* `{f"Response {label}": result['model'] for label, result in zip(...)}`;
\* a key stands for "Response " followed by it, and a key given twice
\* keeps its last value
LabelMap(results) ==
  [l \in {labels(results)[i] : i \in 1..Len(results)} |->
     results[CHOOSE i \in 1..Len(results) :
               /\ labels(results)[i] = l
               /\ \A j \in (i + 1)..Len(results) : labels(results)[j] # l]]

\* the response texts of the stage-1 results
ResponseTexts == {"x", "y"}
NoPrompt == [question |-> "", responses |-> <<>>]

\* a faulty variant of RankingPrompt below: each response is shown with the
\* model that gave it
RankingPromptNamed(user_query, results, responses) ==
  [question |-> user_query,
   responses |-> [i \in 1..Len(results) |->
                    <<labels(results)[i], results[i], responses[i]>>]]

\* `ranking_prompt`: the fixed instructions around the question and
\* responses_text, the list of "Response {label}:\n{result['response']}"
RankingPrompt(user_query, results, responses) ==
  [question |-> user_query,
   responses |-> [i \in 1..Len(results) |->
                    <<labels(results)[i], responses[i]>>]]

RIdle ==
  /\ stage1_results = <<>>
  /\ stage1_responses = <<>>
  /\ ranking_prompt = NoPrompt
  /\ label_to_model = <<>>
  /\ stage2_results = <<>>
  /\ aggregate_rankings = <<>>
  /\ rpc = "off"

RInit ==
  /\ stage1_results \in Stage1Inputs
  /\ stage1_responses = [i \in DOMAIN stage1_results |-> "x"]
  /\ ranking_prompt = NoPrompt
  /\ label_to_model = <<>>
  /\ stage2_results = <<>>
  /\ aggregate_rankings = <<>>
  /\ rpc = "begin"

\* stage2_collect_rankings up to the query of the raters
stage2_collect_rankings ==
  /\ rpc = "begin"
  /\ label_to_model' = LabelMap(stage1_results)
  /\ ranking_prompt' = RankingPrompt("q", stage1_results, stage1_responses)
  /\ rpc' = "stage2"
  /\ UNCHANGED <<stage1_results, stage1_responses, stage2_results,
                 aggregate_rankings, hvars, pvars, svars, mvars>>

\* --------------------------------------------------- parse_ranking_from_text
\* A rater's text is a sequence of tokens: the marker "FINAL RANKING:",
\* a numbered item "<k>. Response <l>" and a plain mention "Response <l>"
\* (text that holds neither is left out: no pattern matches it).
Marker == [t |-> "marker", l |-> ""]
Numbered(l) == [t |-> "num", l |-> l]
Mention(l) == [t |-> "bare", l |-> l]

RaterLabels == {chr(65), chr(66)}
Tokens == {Marker} \cup {Numbered(l) : l \in RaterLabels}
                   \cup {Mention(l) : l \in RaterLabels}
Texts == UNION {[1..k -> Tokens] : k \in 0..MaxTokens}

HasMarker(text) == \E i \in DOMAIN text : text[i] = Marker

\* `ranking_text.split("FINAL RANKING:")`
RECURSIVE split(_)
split(text) ==
  IF ~HasMarker(text) THEN <<text>>
  ELSE LET i == CHOOSE i \in DOMAIN text :
                  /\ text[i] = Marker
                  /\ \A j \in 1..(i - 1) : text[j] # Marker
       IN  <<SubSeq(text, 1, i - 1)>> \o split(SubSeq(text, i + 1, Len(text)))

\* `re.findall(r'\d+\.\s*Response [A-Z]', ...)`
findall_numbered(section) ==
  SelectSeq(section, LAMBDA x : x.t = "num" /\ x.l \in UpperCase)

\* `re.findall(r'Response [A-Z]', ...)`: a numbered item holds a mention
findall_response(section) ==
  SelectSeq(section, LAMBDA x : x.t \in {"num", "bare"} /\ x.l \in UpperCase)

\* the "Response X" part of each match
ResponsePart(matches) == [i \in DOMAIN matches |-> matches[i].l]

\* a faulty variant of parse_ranking_from_text below: the marker is not
\* looked for
parse_ranking_from_text_unmarked(ranking_text) ==
  ResponsePart(findall_response(ranking_text))

parse_ranking_from_text(ranking_text) ==
  IF HasMarker(ranking_text)
  THEN LET parts == split(ranking_text)
           ranking_section == parts[2]
           numbered_matches == findall_numbered(ranking_section)
       IN  IF numbered_matches # <<>>
           THEN ResponsePart(numbered_matches)
           ELSE ResponsePart(findall_response(ranking_section))
  ELSE ResponsePart(findall_response(ranking_text))

\* the text the stage-2 prompt asks a rater for: prose, then the marker,
\* then the numbered list of the labels in `order`
render_ranking(prose, order) ==
  prose \o <<Marker>> \o [i \in DOMAIN order |-> Numbered(order[i])]

\* one rater's response becomes a stage-2 result
rater_response(text) ==
  /\ rpc = "stage2"
  /\ Len(stage2_results) < MaxRaters
  /\ stage2_results' =
       Append(stage2_results,
              [ranking |-> text,
               parsed_ranking |-> parse_ranking_from_text(text)])
  /\ UNCHANGED <<stage1_results, stage1_responses, ranking_prompt,
                 label_to_model, aggregate_rankings, rpc, hvars, pvars, svars, mvars>>

\* ----------------------------------------------- calculate_aggregate_rankings
\* model_positions is kept as the list of its items in insertion order
\* (the order a dict is iterated in)
AppendPosition(model_positions, model_name, position) ==
  IF \E i \in DOMAIN model_positions : model_positions[i].model = model_name
  THEN [i \in DOMAIN model_positions |->
          IF model_positions[i].model = model_name
          THEN [model_positions[i] EXCEPT
                  !.positions = Append(@, position)]
          ELSE model_positions[i]]
  ELSE Append(model_positions,
              [model |-> model_name, positions |-> <<position>>])

\* `for position, label in enumerate(parsed_ranking, start=1)`, from
\* `position` on
RECURSIVE EnumeratePositions(_, _, _, _)
EnumeratePositions(model_positions, parsed_ranking, position, l2m) ==
  IF position > Len(parsed_ranking) THEN model_positions
  ELSE LET label == parsed_ranking[position]
       IN  EnumeratePositions(
             IF label \in DOMAIN l2m
             THEN AppendPosition(model_positions, l2m[label], position)
             ELSE model_positions,
             parsed_ranking, position + 1, l2m)

\* `for ranking in stage2_results`
RECURSIVE ModelPositions(_, _, _)
ModelPositions(model_positions, results, l2m) ==
  IF results = <<>> THEN model_positions
  ELSE ModelPositions(
         EnumeratePositions(model_positions,
                            parse_ranking_from_text(Head(results).ranking),
                            1, l2m),
         Tail(results), l2m)

RECURSIVE sum(_)
sum(positions) ==
  IF positions = <<>> THEN 0 ELSE Head(positions) + sum(Tail(positions))

\* round(total / count, 2), in hundredths.  A quotient half way between two
\* hundredths is a binary fraction, which the float holds exactly and round
\* takes to the even neighbour.
round2(total, count) ==
  LET q == (100 * total) \div count
      r == (100 * total) % count
  IN  IF 2 * r > count THEN q + 1
      ELSE IF 2 * r < count THEN q
      ELSE IF q % 2 = 0 THEN q ELSE q + 1

\* `aggregate.sort(key=lambda x: x['average_rank'])`: a stable sort
RECURSIVE sort(_)
sort(aggregate) ==
  IF aggregate = <<>> THEN <<>>
  ELSE LET x == aggregate[Len(aggregate)]
           rest == sort(SubSeq(aggregate, 1, Len(aggregate) - 1))
           before == SelectSeq(rest,
                       LAMBDA y : y.average_rank <= x.average_rank)
           after == SelectSeq(rest,
                      LAMBDA y : y.average_rank > x.average_rank)
       IN  before \o <<x>> \o after

calculate_aggregate_rankings(results, l2m) ==
  LET model_positions == ModelPositions(<<>>, results, l2m)
      aggregate ==
        [i \in DOMAIN model_positions |->
           [model |-> model_positions[i].model,
            average_rank |-> round2(sum(model_positions[i].positions),
                                    Len(model_positions[i].positions)),
            rankings_count |-> Len(model_positions[i].positions)]]
  IN  sort(aggregate)

\* the caller of stage 2 computes the aggregate of the results it collected
aggregate_stage2 ==
  /\ rpc = "stage2"
  /\ aggregate_rankings' =
       calculate_aggregate_rankings(stage2_results, label_to_model)
  /\ rpc' = "done"
  /\ UNCHANGED <<stage1_results, stage1_responses, ranking_prompt,
                 label_to_model, stage2_results, hvars, pvars, svars, mvars>>

RNext ==
  \/ stage2_collect_rankings
  \/ \E text \in Texts : rater_response(text)
  \/ aggregate_stage2

\* =========================================================== StoreSpec ====
\* storage.py's functions called one after the other on a stored
\* conversation of up to MaxMessages messages.
MaxMessages == 3
MaxStoreCalls == 2

\* a stored message at place i: a user message in one of its statuses, or
\* a council answer
StoredMessages(i) ==
  {[NewUserMessage("q", i) EXCEPT !.status = st] :
      st \in {"pending", "failed", "complete"}}
  \cup {NewAssistantMessage(HandlerCouncil, HandlerCouncil,
            [model |-> "chair", response |-> AnswerText(i),
             summarized_count |-> 0], i)}

StoredConversations ==
  UNION {{c \in [1..n -> UNION {StoredMessages(i) : i \in 1..n}] :
            \A i \in 1..n : c[i] \in StoredMessages(i)} : n \in 0..MaxMessages}

SIdle ==
  /\ conversation = <<>>
  /\ store_calls = <<>>

SInit ==
  /\ conversation \in StoredConversations
  /\ store_calls = <<>>

\* remove_pending_user_messages(id, keep_last): returns the number removed
store_remove_pending_user_messages(keep_last) ==
  /\ Len(store_calls) < MaxStoreCalls
  /\ conversation' = remove_pending_user_messages(conversation, keep_last)
  /\ store_calls' = Append(store_calls,
         [op |-> "remove", arg |-> IF keep_last THEN "keep_last" ELSE "all",
          returned |-> Cardinality(RemovedIndices(conversation, keep_last))])
  /\ UNCHANGED <<hvars, pvars, fvars, mvars>>

\* mark_last_user_message_status(id, status): returns whether a user message
\* was found (1) or not (0)
store_mark_last_user_message_status(status) ==
  /\ Len(store_calls) < MaxStoreCalls
  /\ conversation' = mark_last_user_message_status(conversation, status)
  /\ store_calls' = Append(store_calls,
         [op |-> "mark", arg |-> status,
          returned |-> IF LastUserIndex(conversation) # 0 THEN 1 ELSE 0])
  /\ UNCHANGED <<hvars, pvars, fvars, mvars>>

SNext ==
  \/ \E keep_last \in BOOLEAN : store_remove_pending_user_messages(keep_last)
  \/ \E status \in StatusInputs : store_mark_last_user_message_status(status)

\* ========================================================== MemberSpec ====
\* Which models one council run queries in its three stages, for the
\* provider of the request, the configured council and chairman and the
\* models the local server has.
MaxMembers == 2
MaxInstalled == 2

\* model names: two base names and their ":latest" aliases
ModelNames == {"m1", "m1:latest", "m2", "m2:latest"}

\* f"{m}:latest" (a name no server lists when m carries the suffix already)
with_latest(m) ==
  IF m = "m1" THEN "m1:latest" ELSE IF m = "m2" THEN "m2:latest" ELSE "none"

\* m.endswith(":latest") and m[:-7]
endswith_latest(m) == m \in {"m1:latest", "m2:latest"}
without_latest(m) == IF m = "m1:latest" THEN "m1" ELSE "m2"

\* config.COUNCIL_MODELS and config.CHAIRMAN_MODEL
COUNCIL_MODELS == <<"m1", "m2">>
CHAIRMAN_MODEL == "m2"

Elems(seq) == {seq[i] : i \in DOMAIN seq}

NameLists(n) ==
  UNION {{q \in [1..k -> ModelNames] : \A i, j \in 1..k : i # j => q[i] # q[j]} :
           k \in 0..n}

IsLocal(p) == p = "local"

\* `[m for m in seq if keep(m)]`
RECURSIVE Keep(_, _)
Keep(seq, S) ==
  IF seq = <<>> THEN <<>>
  ELSE (IF Head(seq) \in S THEN <<Head(seq)>> ELSE <<>>) \o Keep(Tail(seq), S)

\* stage2_collect_rankings' is_available
is_available(m, inst) ==
  \/ m \in Elems(inst)
  \/ with_latest(m) \in Elems(inst)
  \/ endswith_latest(m) /\ without_latest(m) \in Elems(inst)

\* the council stage 1 queries: the configured list (COUNCIL_MODELS when it
\* is empty), with the local provider those of it that are installed under
\* exactly that name
Stage1Members(p, conf, inst) ==
  IF IsLocal(p)
  THEN Keep(IF conf = <<>> THEN COUNCIL_MODELS ELSE conf, Elems(inst))
  ELSE IF conf = <<>> THEN COUNCIL_MODELS ELSE conf

\* the council stage 2 queries: the configured list (when it is empty the
\* installed models with the local provider, COUNCIL_MODELS otherwise),
\* with the local provider those of it that are available
Stage2Members(p, conf, inst) ==
  IF IsLocal(p)
  THEN Keep(IF conf = <<>> THEN inst ELSE conf,
            {m \in ModelNames : is_available(m, inst)})
  ELSE IF conf = <<>> THEN COUNCIL_MODELS ELSE conf

\* run_full_council's chairman: with the local provider and the chairman
\* not installed, the model of the first stage-1 result
SyncChairman(p, chair_conf, inst, results) ==
  IF IsLocal(p) /\ chair_conf \notin Elems(inst) /\ results # <<>>
  THEN results[1] ELSE chair_conf

\* the streaming handlers call stage3_synthesize_final without
\* chairman_model: `chairman_model or get_chairman_model() or CHAIRMAN_MODEL`
StreamChairman(chair_conf) == chair_conf

\* the orders in which the models of S can come to be listed
ArrivalOrders(S) ==
  {q \in [1..Cardinality(S) -> S] : \A i, j \in DOMAIN q : i # j => q[i] # q[j]}

\* stage1_results of run_full_council: the dict of query_models_parallel
\* has the models in the order they were given
SyncStage1Results(members, ok) == {Keep(members, ok)}

\* stage1_results of the streaming handlers: model_responses gets a key
\* when the first chunk of a model arrives
StreamStage1Results(members, ok) == ArrivalOrders(Elems(members) \cap ok)

MIdle ==
  /\ provider = "remote" /\ pipeline = "sync"
  /\ council_models = <<>> /\ chairman_model = CHAIRMAN_MODEL
  /\ installed = <<>>
  /\ stage1_members = <<>> /\ stage1_models = <<>> /\ stage2_members = <<>>
  /\ stage2_labels = <<>>
  /\ stage3_chairman = "none"
  /\ ran = <<>> /\ kind = "none" /\ mpc = "off"

MInit ==
  /\ provider \in {"local", "remote"}
  /\ pipeline \in {"sync", "stream"}
  /\ council_models \in NameLists(MaxMembers)
  /\ chairman_model \in ModelNames
  /\ installed \in NameLists(MaxInstalled)
  /\ stage1_members = <<>> /\ stage1_models = <<>> /\ stage2_members = <<>>
  /\ stage2_labels = <<>>
  /\ stage3_chairman = "none"
  /\ ran = <<>> /\ kind = "none" /\ mpc = "begin"

\* stage1_collect_responses up to the queries
member_stage1_query ==
  /\ mpc = "begin"
  /\ stage1_members' = Stage1Members(provider, council_models, installed)
  /\ ran' = Append(ran, 1)
  /\ mpc' = "s1"
  /\ UNCHANGED <<provider, pipeline, council_models, chairman_model, installed,
                 stage1_models, stage2_members, stage2_labels, stage3_chairman,
                 kind, hvars, pvars, fvars, svars>>

\* the answers of stage 1 (ok = the models that produced text); the
\* synchronous pipeline ends here when there is no result
member_stage1_results(ok) ==
  /\ mpc = "s1"
  /\ \E res \in (IF pipeline = "sync"
                  THEN SyncStage1Results(stage1_members, ok)
                  ELSE StreamStage1Results(stage1_members, ok)) :
        /\ stage1_models' = res
        /\ IF pipeline = "sync" /\ res = <<>>
           THEN mpc' = "done" /\ kind' = "all_models_failed"
           ELSE mpc' = "s2" /\ UNCHANGED kind
  /\ UNCHANGED <<provider, pipeline, council_models, chairman_model, installed,
                 stage1_members, stage2_members, stage2_labels, stage3_chairman,
                 ran, hvars, pvars, fvars, svars>>

\* stage2_collect_rankings: the labels and the raters
member_stage2_query ==
  /\ mpc = "s2"
  /\ stage2_labels' = LabelMap(stage1_models)
  /\ stage2_members' = Stage2Members(provider, council_models, installed)
  /\ ran' = Append(ran, 2)
  /\ mpc' = "s3"
  /\ UNCHANGED <<provider, pipeline, council_models, chairman_model, installed,
                 stage1_members, stage1_models, stage3_chairman, kind,
                 hvars, pvars, fvars, svars>>

\* stage3_synthesize_final with the chairman the pipeline chose
member_stage3_query ==
  /\ mpc = "s3"
  /\ stage3_chairman' =
       IF pipeline = "sync"
       THEN SyncChairman(provider, chairman_model, installed, stage1_models)
       ELSE StreamChairman(chairman_model)
  /\ ran' = Append(ran, 3)
  /\ kind' = "answered"
  /\ mpc' = "done"
  /\ UNCHANGED <<provider, pipeline, council_models, chairman_model, installed,
                 stage1_members, stage1_models, stage2_members, stage2_labels,
                 hvars, pvars, fvars, svars>>

MNext ==
  \/ member_stage1_query
  \/ \E ok \in SUBSET ModelNames : member_stage1_results(ok)
  \/ member_stage2_query
  \/ member_stage3_query

\* ------------------------------------------------------- specifications
Next ==
  \/ \E k \in BOOLEAN : remove_pending_messages(k)
  \/ \E st \in StatusInputs : mark_user_message_status(st)
  \/ \E r \in Requests, c \in Contents : send_message(r, c)
  \/ \E r \in Requests, t \in TitleOutcomes : send_message_title(r, t)
  \/ \E r \in Requests, ok \in BOOLEAN : send_message_summary(r, ok)
  \/ \E r \in Requests : \E out \in CouncilOutcomes(req[r].uid) :
        send_message_council(r, out)
  \/ \E r \in Requests : retry_last_pending(r)
  \/ \E r \in Requests, ok \in BOOLEAN : retry_last_pending_summary(r, ok)
  \/ \E r \in Requests : \E out \in CouncilOutcomes(req[r].uid) :
        retry_last_pending_council(r, out)
  \/ \E r \in Requests, c \in Contents, skip \in BOOLEAN :
        send_message_stream(r, c, skip)
  \/ \E r \in Requests : send_message_stream_begin(r)
  \/ \E r \in Requests, ok \in BOOLEAN : send_message_stream_summary(r, ok)
  \/ \E r \in Requests, raise \in BOOLEAN, ok \in SubCouncils :
        send_message_stream_stage1(r, raise, ok)
  \/ \E r \in Requests, raise \in BOOLEAN, ok \in SubCouncils :
        send_message_stream_stage2(r, raise, ok)
  \/ \E r \in Requests, raise \in BOOLEAN : \E t \in Stage3Outcomes(req[r].uid) :
        send_message_stream_stage3(r, raise, t)
  \/ \E r \in Requests, t \in TitleOutcomes : send_message_stream_title(r, t)
  \/ \E r \in Requests : send_message_stream_save(r)
  \/ \E r \in Requests, skip \in BOOLEAN : retry_last_pending_stream(r, skip)
  \/ \E r \in Requests : retry_last_pending_stream_begin(r)
  \/ \E r \in Requests, ok \in BOOLEAN : retry_last_pending_stream_summary(r, ok)
  \/ \E r \in Requests, raise \in BOOLEAN, ok \in SubCouncils :
        retry_last_pending_stream_stage1(r, raise, ok)
  \/ \E r \in Requests, raise \in BOOLEAN, ok \in SubCouncils :
        retry_last_pending_stream_stage2(r, raise, ok)
  \/ \E r \in Requests, raise \in BOOLEAN : \E t \in Stage3Outcomes(req[r].uid) :
        retry_last_pending_stream_stage3(r, raise, t)
  \/ \E r \in Requests : retry_last_pending_stream_save(r)
  \/ \E r \in Requests : client_disconnect(r)
  \/ \E b \in bg : background_summarize_start(b)
  \/ \E b \in bg, ok \in BOOLEAN : background_summarize_persist(b, ok)

Init == HInit /\ PIdle /\ RIdle /\ SIdle /\ MIdle

Spec == Init /\ [][Next]_vars

PNext ==
  \/ stage1_start
  \/ \E s \in Stages, w \in Workers, raised \in BOOLEAN : worker_begin(s, w, raised)
  \/ \E s \in Stages, w \in Workers, ok \in BOOLEAN : worker_stream(s, w, ok)
  \/ \E s \in Stages : mux_get(s)
  \/ stage2_start
  \/ stage3_start
  \/ \E type \in {"chunk", "done", "error"} : chairman_chunk(type)
  \/ consumer_abandon
  \/ sync_stage1_start
  \/ \E s \in Stages, w \in Workers : sync_worker_run(s, w)
  \/ \E s \in Stages, w \in Workers, res \in SyncResults : sync_worker_return(s, w, res)
  \/ sync_gather_raise
  \/ sync_stage2_start
  \/ sync_stage3_start
  \/ \E res \in SyncResults : sync_chairman_return(res)

PipeInit == HIdle /\ PInit /\ RIdle /\ SIdle /\ MIdle

PipeSpec == PipeInit /\ [][PNext]_vars

\* the consumer loop is scheduled whenever an item waits in the queue, and
\* the handler goes on as soon as the merged stream has ended
PipeFairSpec ==
  /\ PipeSpec
  /\ WF_vars(\E s \in Stages : mux_get(s))
  /\ WF_vars(stage2_start)
  /\ WF_vars(stage3_start)

\* one run from the labelling of the stage-1 results to the aggregate
RankInit == HIdle /\ PIdle /\ RInit /\ SIdle /\ MIdle

RankSpec == RankInit /\ [][RNext]_vars

\* the labelling and the prompt of stage 2 for every council of up to
\* PromptCouncil models, in any order, with any response texts
PromptModels == 1..PromptCouncil
PromptCouncils ==
  {c \in UNION {[1..n -> PromptModels] : n \in 0..PromptCouncil} :
     \A i, j \in DOMAIN c : c[i] = c[j] => i = j}

PromptInit ==
  /\ HIdle /\ PIdle /\ SIdle /\ MIdle
  /\ stage1_results \in PromptCouncils
  /\ stage1_responses \in [DOMAIN stage1_results -> ResponseTexts]
  /\ ranking_prompt = NoPrompt
  /\ label_to_model = <<>>
  /\ stage2_results = <<>>
  /\ aggregate_rankings = <<>>
  /\ rpc = "begin"

PromptSpec == PromptInit /\ [][stage2_collect_rankings]_vars

\* the store functions on every stored conversation of the bound
StoreInit == HIdle /\ PIdle /\ RIdle /\ SInit /\ MIdle

StoreSpec == StoreInit /\ [][SNext]_vars

\* one council run for every provider, configuration and set of installed
\* models of the bound
MemberInit == HIdle /\ PIdle /\ RIdle /\ SIdle /\ MInit

MemberSpec == MemberInit /\ [][MNext]_vars


\* ================================================= properties of Spec ====
Last(s) == s[Len(s)]

PendingUsers(msgs) ==
  {i \in DOMAIN msgs : msgs[i].role = "user" /\ msgs[i].status = "pending"}

\* the user messages of the turn with id uid
TurnUsers(msgs, uid) ==
  {i \in DOMAIN msgs : msgs[i].role = "user" /\ msgs[i].id = uid}

\* the store write w appends a council answer (no summary)
AppendsAnswer(w) ==
  /\ Len(w.post) = Len(w.pre) + 1
  /\ Last(w.post).role = "assistant"
  /\ Last(w.post).sc = 0

\* C1: in every reachable state of the conversation at most one user
\* message has status pending.
C1_AtMostOnePending == Cardinality(PendingUsers(messages)) <= 1

\* C2: when a streaming send has just stored its answer and emitted the
\* complete event, the user message of that request has status complete.
C2_StreamSendCompletesUser ==
  \A r \in Requests :
    ( /\ req[r].kind = "send_stream" /\ req[r].pc = "done"
      /\ events[r] # <<>> /\ Last(events[r]) = "complete"
      /\ writes # <<>> /\ AppendsAnswer(writes[1])
      /\ Last(writes[1].post).id = req[r].uid )
    => \A i \in TurnUsers(messages, req[r].uid) : messages[i].status = "complete"

\* the step in which the except block of a streaming handler runs
StreamExceptStep(r) ==
  /\ req[r].kind \in {"send_stream", "retry_stream"}
  /\ req[r].pc \notin Ended
  /\ req'[r].pc = "failed"

ErrorIsFinalEvent(ev) ==
  /\ ev # <<>>
  /\ Last(ev) = "error"
  /\ \A i \in DOMAIN ev : ev[i] # "complete"

\* C3: when a streaming handler (send or retry) fails with an exception
\* after the user message was stored, that step leaves the last user message
\* of the conversation with status failed, the error event is the last event
\* of the run and the run has no complete event; nothing is emitted after it.
C3_StreamFailureMarksFailed ==
  /\ [][\A r \in Requests : StreamExceptStep(r) =>
          /\ UserIndices(messages) # {} =>
                /\ LastUserIndex(messages') # 0
                /\ messages'[LastUserIndex(messages')].status = "failed"
          /\ ErrorIsFinalEvent(events'[r])]_vars
  /\ [](\A r \in Requests : req[r].pc = "failed" => ErrorIsFinalEvent(events[r]))

\* a streaming send failed in stage 2: its user message is failed and the
\* error event closed the run
C3_Witness ==
  \E r \in Requests :
    /\ req[r].kind = "send_stream" /\ req[r].pc = "failed"
    /\ events[r] = <<"stage1_start", "stage1_complete", "stage2_start", "error">>
    /\ \A i \in TurnUsers(messages, req[r].uid) : messages[i].status = "failed"
    /\ TurnUsers(messages, req[r].uid) # {}
    /\ writes # <<>>

\* C4: a request that ended with a failure has not left its own user
\* message pending (pending as it was stored, never marked by anyone).
C4_NoFailureLeavesPending ==
  \A r \in Requests :
    req[r].pc \in {"raised", "failed"} =>
      \A i \in TurnUsers(messages, req[r].uid) :
        ~(messages[i].status = "pending" /\ messages[i].upd = 0)

\* C5: every store write that appends a council answer finds a user message
\* as the last message and leaves that user message with status complete.
C5_AnswerFollowsUserInOneWrite ==
  \A k \in DOMAIN writes :
    AppendsAnswer(writes[k]) =>
      /\ writes[k].pre # <<>>
      /\ Last(writes[k].pre).role = "user"
      /\ writes[k].post[Len(writes[k].pre)].status = "complete"


\* C11: a streaming request whose client went away during stage 2 has no
\* answer stored for its turn and has not left its user message pending.
C11_DisconnectInStage2MarksFailed ==
  \A r \in Requests :
    ( /\ req[r].kind = "send_stream" /\ req[r].pc = "cancelled"
      /\ events[r] # <<>> /\ Last(events[r]) = "stage2_start" )
    => /\ \A i \in TurnUsers(messages, req[r].uid) :
             ~(messages[i].status = "pending" /\ messages[i].upd = 0)
       /\ \A i \in DOMAIN messages :
             ~(messages[i].role = "assistant" /\ messages[i].id = req[r].uid)

\* C14: a handler whose stage 1 ended without any result does not go on to
\* stage 2 or stage 3.
C14_AllFailedSkipsStages ==
  \A r \in Requests :
    (req[r].pc \in {"s2", "s3"} /\ ~req[r].skip) => req[r].s1 # <<>>

\* the step in which a retry endpoint is called in slot r
RetryCall(r) ==
  /\ Free(r)
  /\ req'[r] # req[r]
  /\ req'[r].kind \in {"retry", "retry_stream"}

\* C22: a retry endpoint re-runs the orchestration, with the content of the
\* last user message, exactly when that message is pending or failed; when
\* it is complete or there is no user message the call is rejected as a bad
\* request, and the stored conversation is as before.
C22_RetryOnlyPendingOrFailed ==
  [][\A r \in Requests : RetryCall(r) =>
        IF /\ LastUserIndex(messages) # 0
           /\ messages[LastUserIndex(messages)].status \in {"pending", "failed"}
        THEN /\ req'[r].pc \notin Ended
             /\ req'[r].content = messages[LastUserIndex(messages)].content
             /\ req'[r].uid = messages[LastUserIndex(messages)].id
        ELSE /\ req'[r].pc = "rejected"
             /\ messages' = messages /\ title' = title /\ writes' = <<>>]_vars

Assistants(msgs) == {i \in DOMAIN msgs : msgs[i].role = "assistant"}

\* a step of the retry handler running in slot r
RetryStep(r) ==
  /\ req[r].kind \in {"retry", "retry_stream"}
  /\ req[r].pc \notin Ended
  /\ req'[r] # req[r]

\* C23: a retry that succeeds leaves the user message it retried complete
\* and adds exactly one assistant message to the conversation: its last
\* step appends one, and no earlier step of it appends any.
C23_RetryAddsOneAssistant ==
  [][\A r \in Requests : RetryStep(r) =>
        IF req'[r].pc = "done"
        THEN /\ Cardinality(Assistants(messages'))
                  = Cardinality(Assistants(messages)) + 1
             /\ \A i \in TurnUsers(messages', req[r].uid) :
                  messages'[i].status = "complete"
        ELSE Cardinality(Assistants(messages'))
               = Cardinality(Assistants(messages))]_vars

\* the council answers (assistant messages that are no summary)
Answers(msgs) ==
  {i \in DOMAIN msgs : msgs[i].role = "assistant" /\ msgs[i].sc = 0}

\* the council answers with a non-empty final
CompletedAnswers(msgs) == {i \in Answers(msgs) : msgs[i].resp # EmptyText}

\* the step appends a summary message
SummaryInserted ==
  /\ Len(messages') = Len(messages) + 1
  /\ Last(messages').role = "assistant"
  /\ Last(messages').sc > 0

\* C24: a summary message, written by a handler or by the background task,
\* is inserted only when more than SUMMARY_RETENTION council answers with a
\* non-empty final are stored.
C24_SummaryOnlyAboveRetention ==
  [][SummaryInserted =>
       Cardinality(CompletedAnswers(messages)) > SUMMARY_RETENTION]_vars

\* the background task has just stored a summary of the oldest final of a
\* conversation with one answer more than SUMMARY_RETENTION
C24_Witness ==
  /\ writes # <<>> /\ writes[1].post # <<>>
  /\ Last(writes[1].post).role = "assistant"
  /\ Last(writes[1].post).sc = 1
  /\ Cardinality(CompletedAnswers(writes[1].pre)) = SUMMARY_RETENTION + 1
  /\ \A r \in Requests : req[r].pc \in Ended

\* C25: a handler run that persisted a summary in the foreground schedules
\* no background summarization: no background task ever belongs to it.
C25_NoBackgroundAfterSyncSummary ==
  [][\A r \in Requests :
        req[r].did_sync_summary => \A b \in bg' : b.id # req[r].call]_vars

\* a single streaming send stored a summary and then its answer, and no
\* background task exists although more than SUMMARY_RETENTION finals are
\* stored
C25_Witness ==
  \E r \in Requests :
    /\ calls = 1 /\ bg = {}
    /\ req[r].kind = "send_stream" /\ req[r].pc = "done"
    /\ events[r] # <<>> /\ Last(events[r]) = "complete"
    /\ Len(messages) >= 3
    /\ messages[Len(messages) - 1].sc > 0
    /\ Last(messages).role = "assistant" /\ Last(messages).id = req[r].uid
    /\ Len(Finals(messages)) > SUMMARY_RETENTION

\* the positions in which a handler runs the orchestration
Orchestrating == {"council", "s1", "s3"}

\* the step in which handler r hands prior_context to the orchestrator
ContextBuilt(r) ==
  /\ req[r].pc \in Ended \cup {"title", "gen", "summ"}
  /\ req'[r].pc \in Orchestrating

\* C26: the prior_context a handler hands to the orchestrator is the
\* reference: the stored finals when they are at most
\* IMMEDIATE_CONTEXT_KEEP (none: null); with more of them, the summary text
\* followed by the IMMEDIATE_CONTEXT_KEEP most recent finals when the summary
\* was made and persisted, and the most recent finals alone when it failed.
C26_PriorContextIsReference ==
  [][\A r \in Requests : ContextBuilt(r) =>
        IF req[r].pc = "summ"
        THEN /\ req[r].remaining # <<>>
             /\ req'[r].prior_context =
                  IF SummaryInserted
                  THEN <<SummaryText(req[r].nsum)>> \o req[r].remaining
                  ELSE req[r].remaining
        ELSE /\ Len(Finals(messages')) <= IMMEDIATE_CONTEXT_KEEP
             /\ req'[r].prior_context = Finals(messages')]_vars

\* message_count of list_conversations: the complete user messages and the
\* assistant messages with a final that are no summary
message_count(msgs) ==
  Cardinality({i \in DOMAIN msgs :
     \/ msgs[i].role = "user" /\ msgs[i].status = "complete"
     \/ msgs[i].role = "assistant" /\ msgs[i].resp # EmptyText
                                  /\ msgs[i].sc = 0})

Summaries(msgs) == {i \in DOMAIN msgs : msgs[i].role = "assistant" /\ msgs[i].sc > 0}

\* the fourth turn of a conversation of three completed turns has ended
\* well through a send endpoint, no other call was made and no background
\* task is left
FourTurnsDone ==
  /\ calls = 1 /\ bg = {}
  /\ \E r \in Requests :
        req[r].kind \in {"send", "send_stream"} /\ req[r].pc = "done"
  /\ Cardinality(CompletedAnswers(messages)) = SUMMARY_RETENTION + 1
  /\ \A i \in Answers(messages) : messages[i].resp \notin {ErrorText, AllFailedText}

\* C27: after four successful turns on a new conversation, once the
\* background work is over, there is exactly one summary message, its
\* summarized_count is 1, and the list endpoint reports message_count 8
\* (IMMEDIATE_CONTEXT_KEEP = SUMMARY_RETENTION = 3).
C27_FourTurnsOneSummary ==
  FourTurnsDone =>
    /\ Cardinality(Summaries(messages)) = 1
    /\ \A i \in Summaries(messages) : messages[i].sc = 1
    /\ message_count(messages) = 2 * (SUMMARY_RETENTION + 1)

\* ------------------------------------------ skip_stages (property of Spec)
StreamingKinds == {"send_stream", "retry_stream"}

\* a step of a streaming handler that was called with skip_stages = true
SkipStep(r) ==
  /\ req[r].kind \in StreamingKinds /\ req[r].skip
  /\ req[r].pc \notin Ended
  /\ req'[r] # req[r]
  /\ req'[r].pc # "cancelled"

Stage12Events ==
  {"stage1_start", "stage1_complete", "stage2_start", "stage2_metadata",
   "stage2_complete"}

\* the handler has the chairman's answer (and the title, if one was asked
\* for) and goes on to store it
AtSave(q) == q.pc = "posttitle" \/ (q.pc = "post3" /\ ~q.is_first)

\* C31: with skip_stages = true the streaming handlers (send and retry) run
\* no stage 1 and no stage 2, emit only stage-3 events before the closing
\* events, and store an assistant message with stage1 = stage2 = [] that
\* holds the chairman's answer, ending with complete.
C31_SkipStagesGoesToStage3 ==
  [][\A r \in Requests : SkipStep(r) =>
        /\ req'[r].pc \notin {"s1", "s2"}
        /\ \A i \in DOMAIN events'[r] : events'[r][i] \notin Stage12Events
        /\ AtSave(req[r]) =>
              /\ req'[r].pc = "done"
              /\ Last(events'[r]) = "complete"
              /\ Len(messages') = Len(messages) + 1
              /\ Last(messages').role = "assistant"
              /\ Last(messages').stage1 = <<>>
              /\ Last(messages').stage2 = <<>>
              /\ Last(messages').resp = req[r].s3.response]_vars

\* -------------------------------------- message order (property of Spec)
\* a message without the fields a status change rewrites
Unmarked(m) == [m EXCEPT !.status = "", !.upd = 0]

\* the write put one message at the end and left the others alone
AppendedAtEnd(pre, post) ==
  /\ Len(post) = Len(pre) + 1
  /\ SubSeq(post, 1, Len(pre)) = pre

\* the write changed at most statuses (or the title), message by message
ChangedInPlace(pre, post) ==
  /\ Len(post) = Len(pre)
  /\ \A i \in DOMAIN pre : Unmarked(post[i]) = Unmarked(pre[i])

\* the write took out pending or failed user messages and left the others
\* in the order they had
RemovedPending(pre, post) ==
  \E drop \in SUBSET RemovableIndices(pre) : post = DropIndices(pre, drop, 1)

OrderKept(w) ==
  \/ AppendedAtEnd(w.pre, w.post)
  \/ ChangedInPlace(w.pre, w.post)
  \/ RemovedPending(w.pre, w.post)

\* the writes of a step start from the stored messages and end in the
\* messages the step leaves
WritesOfStep ==
  IF writes' = <<>> THEN messages' = messages
  ELSE /\ writes'[1].pre = messages
       /\ writes'[Len(writes')].post = messages'
       /\ \A i \in 1..(Len(writes') - 1) : writes'[i + 1].pre = writes'[i].post

\* C30: the relative order of the messages of a conversation is never
\* changed: every store write appends at the end, changes a status or the
\* title in place, or removes pending/failed user messages, so two messages
\* present before and after a write keep their order.
C30_OrderNeverMutated ==
  [][WritesOfStep /\ \A i \in DOMAIN writes' : OrderKept(writes'[i])]_vars

\* a pending user message was removed from between two messages that stay
C30_Witness ==
  /\ Len(writes) = 1
  /\ Len(writes[1].pre) > 2
  /\ Len(writes[1].post) = Len(writes[1].pre) - 1
  /\ writes[1].post[1] = writes[1].pre[1]
  /\ writes[1].post[Len(writes[1].post)] = writes[1].pre[Len(writes[1].pre)]
  /\ messages = writes[1].post

\* ============================================= properties of PipeSpec ====
Terminal(s) == \A w \in Workers : wpc[s][w] \in {"none", "finished"}

IsPrefix(a, b) == Len(a) <= Len(b) /\ SubSeq(b, 1, Len(a)) = a

Count(seq, x) == Cardinality({i \in DOMAIN seq : seq[i] = x})

\* C6: no stage-2 worker exists before every stage-1 worker has reached its
\* terminal, and the chairman is not started before every stage-2 worker
\* has reached its terminal (streaming and synchronous pipeline).
C6_StagesStrictlyOrdered ==
  /\ (\E w \in Workers : wpc[2][w] # "none") => Terminal(1)
  /\ chair # <<>> => Terminal(1) /\ Terminal(2)

\* the chairman streams after both stages ran with every member
C6_Witness ==
  /\ mode = "stream" /\ cpc = "s3" /\ chair = <<"start", "chunk">>
  /\ nmodels = NumWorkers
  /\ \A s \in Stages, w \in Workers : wpc[s][w] = "finished"

\* C7: what the consumer was handed of a worker is, in order, the beginning
\* of what that worker put: the merged stream keeps each worker's order.
C7_WorkerOrderPreserved ==
  (mode = "stream" /\ cpc \in {"s1", "s2"}) =>
     \A w \in Workers : IsPrefix(got[w], wlog[StageOf(cpc)][w])

\* the chunks of two workers were handed on, both streams complete
C7_Witness ==
  /\ mode = "stream" /\ cpc = "s1"
  /\ \A w \in Workers : got[w] = <<"start", "chunk", "done">>

\* C8: per worker the merged stream holds at most one start; a worker whose
\* chunk or done was handed on has exactly one start, and it is the first
\* item of that worker.
C8_OneStartBeforeChunks ==
  mode = "stream" =>
    \A w \in Workers :
      /\ Count(got[w], "start") <= 1
      /\ (\E i \in DOMAIN got[w] : got[w][i] \in {"chunk", "done"}) =>
            (Count(got[w], "start") = 1 /\ got[w][1] = "start")
      /\ \A s \in Stages :
            /\ Count(wlog[s][w], "start") <= 1
            /\ (\E i \in DOMAIN wlog[s][w] : wlog[s][w][i] \in {"chunk", "done"}) =>
                  wlog[s][w][1] = "start"

\* one worker's start and chunk were handed on while the other failed
\* after its start
C8_Witness ==
  /\ mode = "stream" /\ cpc = "s1" /\ active_workers = 0
  /\ \E w \in Workers : got[w] = <<"start", "chunk", "done">>
  /\ \E w \in Workers : got[w] = <<"start", "error">>

\* the step in which the merged stream of stage s ends for the consumer
StreamEnds(s) == mode = "stream" /\ StageOf(cpc) = s /\ cpc' \notin {cpc, "gone"}

\* C9: the merged stream ends only when every worker is over and all their
\* items were handed on, and once every worker is over it does end (for
\* every number 0..NumWorkers of workers).
C9_MergedStreamTerminates ==
  /\ [][\A s \in Stages : StreamEnds(s) =>
          /\ Terminal(s)
          /\ queue[s] = <<>>
          /\ \A w \in Workers : got[w] = wlog[s][w]]_vars
  /\ \A s \in Stages :
       (mode = "stream" /\ StageOf(cpc) = s /\ Terminal(s)) ~> (StageOf(cpc) # s)

\* stage 1's merged stream ended after every worker had put its chunks
C9_Witness ==
  /\ mode = "stream" /\ cpc = "s2" /\ nmodels = NumWorkers
  /\ \A w \in Workers : wlog[1][w] # <<>> /\ wpc[1][w] = "finished"
  /\ \A w \in Workers : wpc[2][w] = "created"

\* C10: once the consumer has abandoned the merged stream no worker task is
\* left running.
C10_AbandonStopsWorkers ==
  cpc = "gone" => \A s \in Stages : Terminal(s)

\* the most items one worker puts: start, chunk, done and the complete marker
WorkerOutput == <<"start">> \o UpstreamChunks(TRUE) \o <<"complete">>

\* C12: the queue between the workers and the consumer never holds the whole
\* output of every worker of a full council at once: some put has waited for
\* the consumer to take an item.
C12_ChannelBounded ==
  \A s \in Stages :
    (mode = "stream" /\ nmodels = NumWorkers)
       => Len(queue[s]) < NumWorkers * Len(WorkerOutput)

\* worker w of stage s got a response from its model
Succeeded(s, w) ==
  IF mode = "stream" THEN \E i \in DOMAIN wlog[s][w] : wlog[s][w][i] = "done"
  ELSE wlog[s][w] = <<"ok">>

Stage1Results ==
  IF mode = "stream" THEN stream_stage1_results ELSE sync_stage1_results

StreamKinds == {"send_stream", "retry_stream"}

\* the step of handler r in which the chairman's stream ended with an error
Stage3ErrorStep(r) ==
  /\ req[r].kind \in StreamKinds /\ req[r].pc = "s3"
  /\ req'[r].pc = "post3" /\ req'[r].s3.response = ErrorText

\* the step in which handler r stores its answer and ends
SaveStep(r) ==
  /\ req[r].kind \in StreamKinds /\ req[r].pc \in {"post3", "posttitle"}
  /\ req'[r].pc = "done"

C16_LabelMapIsAlphabetPrefix ==
  rpc \in {"stage2", "done"} =>
    LET n == Len(stage1_results)
    IN  /\ \A l \in DOMAIN label_to_model :
             \E i \in 1..n : i <= Len(Alphabet) /\ Alphabet[i] = l
        /\ \A i \in 1..n :
             i <= Len(Alphabet) => Alphabet[i] \in DOMAIN label_to_model
        /\ \A i \in 1..n :
             \E l \in DOMAIN label_to_model :
               label_to_model[l] = stage1_results[i]
        /\ \A l1, l2 \in DOMAIN label_to_model :
             label_to_model[l1] = label_to_model[l2] => l1 = l2

\* C17: the list calculate_aggregate_rankings returns is sorted by
\* average_rank ascending, ties broken by rankings_count descending and the
\* remaining ties by model identifier ascending.
InOrder(x, y) ==
  \/ x.average_rank < y.average_rank
  \/ /\ x.average_rank = y.average_rank
     /\ \/ x.rankings_count > y.rankings_count
        \/ /\ x.rankings_count = y.rankings_count
           /\ x.model <= y.model
C17_AggregateSortedByThreeKeys ==
  rpc = "done" =>
    \A i, j \in DOMAIN aggregate_rankings :
      i < j => InOrder(aggregate_rankings[i], aggregate_rankings[j])

\* C18: a rater contributes at most one position to a model, the position
\* of the first occurrence of the model's label in the rater's parsed
\* ranking, and labels that are not in the label map contribute nothing.
FirstPositions(model) ==
  LET First(parsed) ==
        SelectSeq([p \in DOMAIN parsed |-> p],
                  LAMBDA p : /\ parsed[p] \in DOMAIN label_to_model
                             /\ label_to_model[parsed[p]] = model
                             /\ \A q \in 1..(p - 1) : parsed[q] # parsed[p])
      RECURSIVE Collect(_)
      Collect(k) ==
        IF k > Len(stage2_results) THEN <<>>
        ELSE First(stage2_results[k].parsed_ranking) \o Collect(k + 1)
  IN  Collect(1)
C18_FirstOccurrenceOnly ==
  rpc = "done" =>
    /\ \A i \in DOMAIN aggregate_rankings :
         LET e == aggregate_rankings[i]
             positions == FirstPositions(e.model)
         IN  /\ e.rankings_count = Len(positions)
             /\ e.rankings_count <= Len(stage2_results)
             /\ positions # <<>>
             /\ e.average_rank = round2(sum(positions), Len(positions))
    /\ \A l \in DOMAIN label_to_model :
         FirstPositions(label_to_model[l]) # <<>> =>
           \E i \in DOMAIN aggregate_rankings :
             aggregate_rankings[i].model = label_to_model[l]

\* C19: a rater text that follows the template (prose, the marker, the
\* numbered list of an ordering of labels) is parsed to that ordering,
\* whatever labels the prose mentions.
Orders == UNION {[1..k -> RaterLabels] : k \in 0..MaxTokens}
C19_ParseRenderRoundTrip ==
  \A k \in DOMAIN stage2_results :
    LET text == stage2_results[k].ranking
        prose == split(text)[1]
    IN  \A order \in Orders :
          text = render_ranking(prose, order) =>
            stage2_results[k].parsed_ranking = order
C19_Witness ==
  \E k \in DOMAIN stage2_results :
    /\ stage2_results[k].ranking =
         render_ranking(<<Mention(chr(66))>>, <<chr(65)>>)
    /\ stage2_results[k].parsed_ranking = <<chr(65)>>

\* C20: when the marker occurs more than once in a rater's text, the labels
\* are extracted only from the part after its last occurrence (the numbered
\* items of that part if it has any, else all its mentions).
C20_LastMarkerWins ==
  \A k \in DOMAIN stage2_results :
    LET text == stage2_results[k].ranking
        parts == split(text)
        last == parts[Len(parts)]
    IN  Len(parts) > 2 =>
          stage2_results[k].parsed_ranking =
            IF findall_numbered(last) # <<>>
            THEN ResponsePart(findall_numbered(last))
            ELSE ResponsePart(findall_response(last))

\* ================================================== properties of PromptSpec

\* the councils that answered with the same texts in the same places
SameTexts == {c \in PromptCouncils : Len(c) = Len(stage1_results)}

\* C21: the prompt the raters get names each stage-1 response by its label
\* only: any run that differs from this one only in which model gave which
\* response text gives the raters the same prompt.
C21_PromptHidesModels ==
  rpc = "stage2" =>
    \A other \in SameTexts :
      RankingPrompt(ranking_prompt.question, other, stage1_responses)
        = ranking_prompt

\* two models answered with different texts
C21_Witness ==
  /\ rpc = "stage2"
  /\ stage1_results = <<2, 1>>
  /\ stage1_responses = <<"x", "y">>
  /\ ranking_prompt.responses = <<<<chr(65), "x">>, <<chr(66), "y">>>>

\* ------------------------------------------------- properties of StoreSpec
IsKeepLast(c) == c.op = "remove" /\ c.arg = "keep_last"

\* a second remove_pending_user_messages(id, keep_last=True) directly after
\* a first one
SecondKeepLast ==
  /\ store_calls # <<>>
  /\ IsKeepLast(Last(store_calls))
  /\ Len(store_calls') = Len(store_calls) + 1
  /\ IsKeepLast(Last(store_calls'))

\* C28: remove_pending_user_messages(id, keep_last=True) called twice in a
\* row returns 0 the second time, and the second call leaves the
\* conversation as it was.
C28_SecondKeepLastRemovesNothing ==
  [][SecondKeepLast =>
       /\ Last(store_calls').returned = 0
       /\ conversation' = conversation]_vars

\* two calls in a row were made, the first removed messages and one pending
\* or failed user message is still stored
C28_Witness ==
  /\ Len(store_calls) = 2
  /\ IsKeepLast(store_calls[1]) /\ IsKeepLast(store_calls[2])
  /\ store_calls[1].returned > 0
  /\ store_calls[2].returned = 0
  /\ RemovableIndices(conversation) # {}

IsMarkComplete(c) == c.op = "mark" /\ c.arg = "complete"

\* a second mark_last_user_message_status(id, 'complete') directly after a
\* first one that found a user message
SecondMarkComplete ==
  /\ store_calls # <<>>
  /\ IsMarkComplete(Last(store_calls))
  /\ Last(store_calls).returned = 1
  /\ Len(store_calls') = Len(store_calls) + 1
  /\ IsMarkComplete(Last(store_calls'))

\* C29: marking the last user message complete when it is already complete
\* leaves the stored conversation unchanged: the second
\* mark_last_user_message_status(id, 'complete') changes no field of any
\* message.
C29_SecondMarkCompleteChangesNothing ==
  [][SecondMarkComplete => conversation' = conversation]_vars

\* ============================================ further properties of Spec ====
\* the stage events of a streaming run through the three stages that
\* succeeds (the per-model and chunk events lie between the start and the
\* complete event of their stage)
StageEventOrder(is_first) ==
  <<"stage1_start", "stage1_complete", "stage2_start", "stage2_metadata",
    "stage2_complete", "stage3_start", "stage3_complete">>
  \o (IF is_first THEN <<"title_complete">> ELSE <<>>)
  \o <<"complete">>

\* a step of a streaming handler that runs the three stages
FullStreamStep(r) ==
  /\ req[r].kind \in StreamingKinds /\ ~req[r].skip
  /\ req[r].pc \notin Ended
  /\ req'[r] # req[r]

UserStatuses == {"pending", "complete", "failed"}

\* C33: in every reachable state the status of every user message is one
\* of pending, complete, failed, whatever handler calls (the
\* user-message/status endpoint with any status string among them) led to it.
C33_UserStatusInDomain ==
  \A i \in UserIndices(messages) : messages[i].status \in UserStatuses

\* the write w kept every message that was stored when it was made: each
\* is still there with its content, and with its status unless it is the
\* last user message (the one a status write is aimed at); only the
\* remove endpoint takes out messages, pending or failed user messages
KeepsOthersWrites(w) ==
  \/ /\ Len(w.post) >= Len(w.pre)
     /\ \A i \in DOMAIN w.pre :
          /\ Unmarked(w.post[i]) = Unmarked(w.pre[i])
          /\ w.post[i].status = w.pre[i].status \/ i = LastUserIndex(w.pre)
  \/ /\ Len(w.post) < Len(w.pre)
     /\ RemovedPending(w.pre, w.post)

\* C34: under any interleaving of requests and background summarization
\* tasks on one conversation the store writes are serialized: every write
\* starts from the conversation as the latest write left it, and discards
\* no message appended and no status set by another task.
C34_WritesSerialized ==
  [][/\ WritesOfStep
     /\ \A i \in DOMAIN writes' : KeepsOthersWrites(writes'[i])]_vars

\* a request stored its answer behind the user message that another
\* request had appended while the first was running
C34_Witness ==
  \E r \in Requests :
    /\ req[r].pc = "done" /\ writes # <<>>
    /\ Len(messages) >= 3
    /\ Last(messages).role = "assistant" /\ Last(messages).id = req[r].uid
    /\ messages[Len(messages) - 1].role = "user"
    /\ messages[Len(messages) - 1].id # req[r].uid
    /\ \E i \in UserIndices(messages) : messages[i].id = req[r].uid

\* the council answers stored for the user message uid
AnswersOf(msgs, uid) == {i \in Answers(msgs) : msgs[i].id = uid}

\* C39: one user message never gets two council answers: a retry issued
\* while the original request (or another retry) for the same pending user
\* message is still running does not lead to two assistant messages for
\* that one user message.
\* (a new request takes the lowest free slot, so two slots that hold
\* requests for one user message held them at the same time)
C39_OneAnswerPerUserMessage ==
  \A r, q \in Requests :
     (/\ r # q
      /\ req[r].kind # "none" /\ req[q].kind # "none"
      /\ req[r].uid # 0 /\ req[r].uid = req[q].uid) =>
        Cardinality(AnswersOf(messages, req[r].uid)) <= 1

\* a step of the handler running in slot r
HandlerStep(r) ==
  /\ req[r].kind # "none"
  /\ req[r].pc \notin Ended
  /\ req'[r] # req[r]

\* C40: the status a request writes is applied to the user message that
\* this request appended or retried: under concurrent requests no request
\* marks another request's user message complete or failed, and no user
\* message is failed while the answer of its own turn is stored.
C40_StatusGoesToOwnMessage ==
  [][\A r \in Requests : HandlerStep(r) =>
       \A i \in UserIndices(messages) :
          (i \in DOMAIN messages' /\ messages'[i].status # messages[i].status) =>
             /\ \A q \in Requests \ {r} :
                  (req[q].kind # "none" /\ req[q].uid # req[r].uid)
                     => messages[i].id # req[q].uid
             /\ messages'[i].status = "failed"
                  => AnswersOf(messages', messages[i].id) = {}]_vars

\* ================================================ properties of MemberSpec
\* the configured council (config.COUNCIL_MODELS when none is configured)
ConfiguredCouncil ==
  IF council_models = <<>> THEN COUNCIL_MODELS ELSE council_models

\* the configured members the local server has, under their name or under
\* the ":latest" alias
AvailableMembers ==
  {m \in Elems(ConfiguredCouncil) : is_available(m, installed)}

\* C35: with the local provider and no configured council member locally
\* available the run ends in a failure of kind no_members_available, which
\* is not the all-models-failed outcome, and runs no stage.
C35_NoMembersAvailable ==
  (IsLocal(provider) /\ AvailableMembers = {} /\ mpc = "done") =>
     /\ kind = "no_members_available"
     /\ ran = <<>>

\* C36: with the local provider stage 1 and stage 2 query the same set of
\* models: the configured council members that are locally available, a
\* member counting as available through its ":latest" alias too.
C36_SameMembersInBothStages ==
  (IsLocal(provider) /\ mpc \in {"s3", "done"} /\ ran # <<1>>) =>
     /\ Elems(stage1_members) = AvailableMembers
     /\ Elems(stage2_members) = AvailableMembers

\* C37: with the local provider, the configured chairman not installed and
\* at least one stage-1 response, stage 3 is run by the first stage-1
\* respondent, in the synchronous and in the streaming pipeline.
C37_ChairmanReassigned ==
  (/\ IsLocal(provider) /\ mpc = "done" /\ kind = "answered"
   /\ chairman_model \notin Elems(installed)
   /\ stage1_models # <<>>) =>
     stage3_chairman = stage1_models[1]

\* C38: the labels go to the surviving stage-1 models in council order
\* (Response A the first survivor of the council list, Response B the
\* next), one entry per survivor, whatever order the answers arrived in,
\* in the synchronous and in the streaming pipeline.
C38_LabelsInCouncilOrder ==
  (mpc \in {"s3", "done"} /\ ran # <<1>>) =>
     /\ stage2_labels = LabelMap(Keep(stage1_members, Elems(stage1_models)))
     /\ Cardinality(DOMAIN stage2_labels) = Len(stage1_models)

====
